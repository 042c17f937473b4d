----------------------------- MODULE PieceStream -----------------------------
(***************************************************************************)
(* Synthesis by request (YandexTTS, NavaiTTS, CustomTTS): the text is cut  *)
(* into pieces a server accepts, and the stream asks for one piece after   *)
(* the other.  A piece that cannot be had becomes a moment of silence.     *)
(*                                                                         *)
(* A text is a sequence of words, each with its length and with what ends  *)
(* after it; a piece is the sequence of the positions of its words, joined *)
(* with single spaces.                                                     *)
(***************************************************************************)
EXTENDS Naturals, Sequences, FiniteSetsExt

CONSTANTS
  MaxPiece,   \* max_chunk_length
  Sizes,      \* lengths of words
  MaxWords    \* bound on the words of a text

ASSUME WordsAssumption == MaxWords \in Nat

Ends == {"word", "phrase", "sentence"}
Texts == UNION {[1 .. n -> [size : Sizes, ends : Ends]] : n \in 0 .. MaxWords}

VARIABLES
  script,   \* the text
  pieces,   \* self._chunks
  spoken,   \* for each frame handed out, whether there is speech in it
  reading   \* idle, fetching, read or stopped

pieceVars == <<script, pieces, spoken, reading>>

PieceTypeOK ==
  /\ script \in Texts /\ pieces \in Seq(Seq(DOMAIN script)) /\ spoken \in Seq(BOOLEAN)
  /\ reading \in {"idle", "fetching", "read", "stopped"}

PieceInit == script = <<>> /\ pieces = <<>> /\ spoken = <<>> /\ reading = "idle"

-----------------------------------------------------------------------------
(* The split of a text.                                                    *)
Words(text) == [i \in DOMAIN text |-> i]
In(part) == {part[i] : i \in DOMAIN part}

(* len() of words joined with spaces, and of two such strings joined.      *)
Size(text, words) ==
  IF words = {} THEN 0 ELSE MapThenSumSet(LAMBDA i : 1 + text[i].size, words) - 1
TooLong(text, words) == Size(text, words) > MaxPiece
Joined(text, a, b) == Size(text, In(a)) + 1 + Size(text, In(b))

(* re.split after the given marks: the words of the part that has word m.  *)
Together(text, marks, i, m) ==
  \A k \in DOMAIN text : (i <= k /\ k < m) \/ (m <= k /\ k < i) => text[k].ends \notin marks
Sentence(text, m) == {i \in DOMAIN text : Together(text, {"sentence"}, i, m)}
Phrase(text, m) == {i \in DOMAIN text : Together(text, {"sentence", "phrase"}, i, m)}

(* Yandex takes a sentence that is too long phrase by phrase, and a phrase *)
(* of it that is too long word by word.                                    *)
ByPhrase(text, splitter, m) == splitter = "yandex" /\ TooLong(text, Sentence(text, m))
ByWord(text, splitter, m) ==
  ByPhrase(text, splitter, m) /\ TooLong(text, Phrase(text, m))

Begins(text, m) == m = 1 \/ text[m - 1].ends = "sentence"
Completes(text, splitter, m) ==
  \/ m = Len(text) \/ text[m].ends = "sentence"
  \/ ByPhrase(text, splitter, m) /\ text[m].ends = "phrase"

(* The pieces so far, the one being filled, and what has been read of the  *)
(* part the text is in.  A piece is closed if it holds anything.           *)
Filling(done, current, part) == [done |-> done, current |-> current, part |-> part]
Closing_Lost(done, piece) == done        \* mutant: what is being filled is dropped
Closing(done, piece) == IF piece = <<>> THEN done ELSE Append(done, piece)

(* A part joins the piece being filled or begins the next one.             *)
Pack(text, fill) ==
  IF Joined(text, fill.current, fill.part) <= MaxPiece
  THEN Filling(fill.done, fill.current \o fill.part, <<>>)
  ELSE Filling(Closing(fill.done, fill.current), fill.part, <<>>)

(* The words of a phrase that is too long fill pieces of their own, beside *)
(* the one that is being filled.                                           *)
Spell(text, fill, m) ==
  IF Joined(text, fill.part, <<m>>) <= MaxPiece
  THEN Filling(fill.done, fill.current, Append(fill.part, m))
  ELSE Filling(Closing(fill.done, fill.part), fill.current, <<m>>)

Shut(fill) == Filling(Closing(fill.done, fill.current), <<>>, fill.part)
Spelled(fill) == Filling(Closing(fill.done, fill.part), fill.current, <<>>)
Add(fill, m) == Filling(fill.done, fill.current, Append(fill.part, m))

(* The loops over sentences, phrases and words, word by word: a sentence   *)
(* that is taken by phrases first closes the piece being filled.           *)
Took(text, splitter, fill, m) ==
  LET open == IF ByPhrase(text, splitter, m) /\ Begins(text, m) THEN Shut(fill) ELSE fill
  IN  IF ByWord(text, splitter, m) THEN Spell(text, open, m) ELSE Add(open, m)
Step(text, splitter, fill, m) ==
  LET took == Took(text, splitter, fill, m)
  IN  IF ~Completes(text, splitter, m) THEN took
      ELSE IF ByWord(text, splitter, m) THEN Spelled(took) ELSE Pack(text, took)

Filled(text, splitter) ==
  LET filled[m \in 0 .. Len(text)] ==
        IF m = 0 THEN Filling(<<>>, <<>>, <<>>) ELSE Step(text, splitter, filled[m - 1], m)
  IN  filled[Len(text)]

Pieces(text, splitter) ==
  IF ~TooLong(text, DOMAIN text) THEN <<Words(text)>>
  ELSE Closing(Filled(text, splitter).done, Filled(text, splitter).current)

-----------------------------------------------------------------------------
(* The stream. *)

Read(splitter) ==
  /\ reading = "idle"
  /\ \E text \in Texts : script' = text /\ pieces' = Pieces(text, splitter)
  /\ spoken' = <<>> /\ reading' = "fetching"

(* One piece is asked for and handed out, with what came of it: an error   *)
(* status, an exception, an answer without audio and audio that cannot be  *)
(* read are all the same silence.                                          *)
Frame(heard) ==
  /\ reading = "fetching" /\ Len(spoken) < Len(pieces)
  /\ spoken' = Append(spoken, heard)
  /\ UNCHANGED <<script, pieces, reading>>
Fetched == Len(spoken) < Len(pieces) /\ pieces[Len(spoken) + 1] # <<>> /\ Frame(TRUE)
FetchFails == Frame(FALSE)

Finished ==
  /\ reading = "fetching" /\ Len(spoken) = Len(pieces)
  /\ reading' = "read"
  /\ UNCHANGED <<script, pieces, spoken>>

Stop == reading = "fetching" /\ reading' = "stopped" /\ UNCHANGED <<script, pieces, spoken>>

NextText ==
  /\ reading \in {"read", "stopped"}
  /\ script' = <<>> /\ pieces' = <<>> /\ spoken' = <<>> /\ reading' = "idle"

Reading == Fetched \/ FetchFails \/ Finished

-----------------------------------------------------------------------------
(* Some sentence too long for a piece has a phrase too long for one after  *)
(* a shorter phrase: the only texts the split by phrases reorders.         *)
Overtaken(text) ==
  \E m \in DOMAIN text : \E j \in Sentence(text, m) :
    /\ TooLong(text, Sentence(text, m))
    /\ j < m /\ ~TooLong(text, Phrase(text, j)) /\ TooLong(text, Phrase(text, m))

(* The caller hears the words of a text once each and in its order, and    *)
(* all of them if the reading is finished, each in its piece or in the     *)
(* silence that stands for it (_split_text, __anext__); a phrase that is   *)
(* too long may come before the shorter one it follows.                    *)
Aloud == UNION {{k} \X DOMAIN pieces[k] : k \in 1 .. Len(spoken)}
WordAt(place) == pieces[place[1]][place[2]]
Before(a, b) == a[1] < b[1] \/ (a[1] = b[1] /\ a[2] < b[2])
SaidInOrder ==
  /\ \A a, b \in Aloud : WordAt(a) = WordAt(b) => a = b
  /\ reading = "read" => {WordAt(a) : a \in Aloud} = DOMAIN script
  /\ Overtaken(script) \/
       \A a \in Aloud : \A w \in 1 .. WordAt(a) - 1 : \E b \in Aloud : WordAt(b) = w /\ Before(b, a)
=============================================================================
