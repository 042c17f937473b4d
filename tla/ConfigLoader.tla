----------------------------- MODULE ConfigLoader -----------------------------
(***************************************************************************)
(* Tenant configuration (config/loader.py, config/registry.py): the YAML   *)
(* files of a directory, grouped into experiments and indexed by phone and *)
(* slug; the platform asked about phones no file claims; a cache of what   *)
(* it answered.  One loader serves every call of its process, so lookups   *)
(* overlap while they await the platform, and a reload may come between.   *)
(*                                                                         *)
(* A file is a record: the tenant's slug, its identity (id and name), its  *)
(* phones, the experiment and variant or NoExperiment, and whether it      *)
(* parses and validates.  A configuration of the platform is a version.    *)
(* Calls to reload() are an operator's; nothing in src/ makes them.        *)
(***************************************************************************)
EXTENDS Naturals, FiniteSets, SequencesExt

CONSTANTS
  Calls,         \* who looks up: one lookup per call
  Phones,        \* normalized phone numbers
  Forms,         \* how a number is written in the telephony metadata
  Directories,   \* contents the configuration directory may have
  NoExperiment, NoFile,
  Ttl,           \* cache_ttl_seconds
  Flight,        \* timeout of the request to the platform
  MaxNow,        \* bound on the clock
  MaxVersion     \* bound on the configurations the platform ever has for a phone

ASSUME TimesAssumption == Ttl \in Nat \ {0} /\ Flight \in Nat /\ MaxNow \in Nat /\ MaxVersion \in Nat
ASSUME DirectoryAssumption ==
  \A dir \in Directories : /\ Len(dir) \in Nat /\ DOMAIN dir = 1..Len(dir)
                            /\ \A i \in DOMAIN dir : dir[i] # NoFile

VARIABLES
  byPhone,      \* _configs_by_phone
  bySlug,       \* _configs_by_slug, by slug and the id that goes with it
  experiments,  \* _experiments_by_phone: the files of a cohort
  source,       \* history: the directory the registry was last loaded from
  cache,        \* _api_cache and _api_cache_ts: a version (0 for no entry) and when it came
  lookup,       \* the lookup of each call
  hasKey,       \* ENABLE_LEGACY_INTERNAL_API_KEY_FALLBACK and a key to fall back to
  platform,     \* the platform: the version it has for a phone, 0 for none
  retired,      \* history: when the platform stopped having a version
  now

registry == <<byPhone, bySlug, experiments, source>>
truth == <<platform, retired>>
loaderVars == <<registry, cache, lookup, hasKey, truth, now>>

Slugs == UNION {{f.slug : f \in ToSet(dir)} : dir \in Directories}
Never == MaxNow + Ttl + Flight + 1
NoPhone == [form |-> "missing", number |-> "missing"]
NoConfig == [kind |-> "none"]
OfFile(f, meta) == [kind |-> "file", file |-> f, meta |-> meta]
OfPlatform(v) == [kind |-> "platform", version |-> v]

-----------------------------------------------------------------------------
(* Loading a directory.  A file that does not parse is skipped.  A file is *)
(* named by its place in the directory.                                    *)
Loaded(dir) == {i \in DOMAIN dir : dir[i].ok}
Singles(dir) == {i \in Loaded(dir) : dir[i].experiment = NoExperiment}
Variants(dir) == Loaded(dir) \ Singles(dir)
Cohort(dir, i) ==
  {j \in Variants(dir) : dir[j].slug = dir[i].slug /\ dir[j].experiment = dir[i].experiment}

(* _validate_cohort_identity and the checks of _group_experiments: a       *)
(* variant has others, of its identity and phones and under other names.   *)
Valid(dir, i) ==
  /\ Cohort(dir, i) # {i}
  /\ \A j \in Cohort(dir, i) \ {i} :
       /\ dir[j].identity = dir[i].identity /\ dir[j].phones = dir[i].phones
       /\ dir[j].variant # dir[i].variant

(* What claims a phone last wins it; a cohort claims those of its first.   *)
LastOf(dir, places) == IF places = {} THEN NoFile ELSE dir[Max(places)]
SingleAt(dir, p) == LastOf(dir, {i \in Singles(dir) : p \in dir[i].phones})
CohortsOf(dir, p) == {i \in Variants(dir) : p \in dir[i].phones /\ i = Min(Cohort(dir, i))}
CohortAt(dir, p) ==
  IF CohortsOf(dir, p) = {} THEN {} ELSE {dir[j] : j \in Cohort(dir, Max(CohortsOf(dir, p)))}

(* A directory that does not load raises.                                  *)
Loads(dir) ==
  /\ \A i \in Variants(dir) : Valid(dir, i)
  /\ \A p \in Phones : CohortAt(dir, p) # {} => SingleAt(dir, p) = NoFile
Loadable == {dir \in Directories : Loads(dir)}

(* The single tenants are indexed by slug, and after them the cohorts some *)
(* phone leads to, each in the order of its members but among themselves   *)
(* in the order of the phones, which is left open.                         *)
Reached(dir) == {i \in Variants(dir) : \E p \in Phones : dir[i] \in CohortAt(dir, p)}
SlugAt(dir, s) ==
  LET reached == {i \in Reached(dir) : dir[i].slug = s}
  IN  IF reached = {} THEN {LastOf(dir, {i \in Singles(dir) : dir[i].slug = s})}
      ELSE {dir[Max(Cohort(dir, i))] : i \in reached}
BySlug(dir) ==
  LET at == [s \in Slugs |-> SlugAt(dir, s)]
  IN  {index \in [Slugs -> UNION {at[s] : s \in Slugs}] : \A s \in Slugs : index[s] \in at[s]}

(* get_default: the tenant indexed first, as it is indexed in the end, or  *)
(* the bare defaults.                                                      *)
Defaults ==
  LET first == IF Singles(source) = {} THEN Reached(source) ELSE {Min(Singles(source))}
  IN  IF first = {} THEN {[kind |-> "defaults"]}
      ELSE {OfFile(bySlug[source[i].slug], NoExperiment) : i \in first}

(* What each directory that loads is indexed as.                           *)
Indexes ==
  [dir \in Loadable |->
     [phones |-> [p \in Phones |-> SingleAt(dir, p)], cohorts |-> [p \in Phones |-> CohortAt(dir, p)],
      slugs |-> BySlug(dir)]]

Index_KeepsPhones(dir) ==               \* mutant: the old phones are not cleared
  /\ byPhone' = [p \in Phones |-> IF SingleAt(dir, p) = NoFile THEN byPhone[p] ELSE SingleAt(dir, p)]
  /\ experiments' = Indexes[dir].cohorts /\ bySlug' \in Indexes[dir].slugs
  /\ source' = dir
Index(dir) ==
  /\ byPhone' = Indexes[dir].phones
  /\ experiments' = Indexes[dir].cohorts /\ bySlug' \in Indexes[dir].slugs
  /\ source' = dir

InitLoader ==
  /\ \E dir \in Loadable :
       /\ byPhone = Indexes[dir].phones
       /\ experiments = Indexes[dir].cohorts /\ bySlug \in Indexes[dir].slugs
       /\ source = dir
  /\ cache = [p \in Phones |-> [version |-> 0, at |-> 0]]
  /\ lookup = [c \in Calls |-> [state |-> "idle"]]
  /\ hasKey \in BOOLEAN
  /\ platform = [p \in Phones |-> 0]
  /\ retired = [p \in Phones |-> [v \in 1..MaxVersion |-> Never]]
  /\ now = 0

(* reload() raises on a directory that does not load, after a rollback.    *)
Reload ==
  /\ \E dir \in Directories \ {source} :
       IF dir \in Loadable THEN Index(dir) ELSE UNCHANGED registry
  /\ UNCHANGED <<cache, lookup, hasKey, truth, now>>

-----------------------------------------------------------------------------
(* Lookups.  Whatever the form, a number is looked up as itself.           *)
Normalize(raw) == raw.number

(* get_by_phone hands out a cached answer while it is young.               *)
Young_Inclusive(p) ==                   \* mutant: one tick too long
  cache[p].version # 0 /\ now - cache[p].at <= Ttl
Young(p) == cache[p].version # 0 /\ now - cache[p].at < Ttl
Cached(p) == IF cache[p].version = 0 THEN NoConfig ELSE OfPlatform(cache[p].version)

Done(config) == [state |-> "done", config |-> config]

(* resolve_with_experiment up to its await: a variant drawn from the       *)
(* cohort, the tenant of a file, the cache; without a key the platform is  *)
(* not asked.                                                              *)
ResolvePhone(c, raw) ==
  LET p == Normalize(raw)
  IN  /\ lookup[c].state = "idle"
      /\ \/ \E f \in experiments[p] : lookup' = [lookup EXCEPT ![c] = Done(OfFile(f, f.variant))]
         \/ /\ experiments[p] = {}
            /\ lookup' = [lookup EXCEPT ![c] =
                 CASE byPhone[p] # NoFile -> Done(OfFile(byPhone[p], NoExperiment))
                   [] byPhone[p] = NoFile /\ Young(p) -> Done(Cached(p))
                   [] byPhone[p] = NoFile /\ ~Young(p) /\ ~hasKey -> Done(NoConfig)
                   [] OTHER -> [state |-> "asked", phone |-> p, since |-> now]]
      /\ UNCHANGED <<registry, cache, hasKey, truth, now>>

(* _fetch_from_api: the platform answers, and the answer arrives later.    *)
PlatformAnswers(c) ==
  /\ lookup[c].state = "asked"
  /\ lookup' = [lookup EXCEPT ![c] =
       [state |-> "answered", phone |-> lookup[c].phone, since |-> lookup[c].since,
        version |-> platform[lookup[c].phone]]]
  /\ UNCHANGED <<registry, cache, hasKey, truth, now>>

AnswerArrives(c) ==
  LET v == lookup[c].version
  IN  /\ lookup[c].state = "answered"
      /\ lookup' = [lookup EXCEPT ![c] =
           Done(IF v = 0 THEN NoConfig ELSE OfPlatform(v))]
      /\ cache' = IF v = 0 THEN cache ELSE [cache EXCEPT ![lookup[c].phone] = [version |-> v, at |-> now]]
      /\ UNCHANGED <<registry, hasKey, truth, now>>

(* A timeout, a network error, an error status or an answer that does not  *)
(* validate: whatever the cache has, however old.                          *)
FetchFails_NoTimeout(c) == FALSE        \* mutant: the platform is awaited for as long as it takes
FetchFails(c) ==
  /\ lookup[c].state \in {"asked", "answered"}
  /\ lookup' = [lookup EXCEPT ![c] = Done(Cached(lookup[c].phone))]
  /\ UNCHANGED <<registry, cache, hasKey, truth, now>>

-----------------------------------------------------------------------------
(* The platform changes or removes the configuration of a phone.           *)
Retire(p) ==
  retired' = IF platform[p] = 0 THEN retired ELSE [retired EXCEPT ![p][platform[p]] = now]

Unused(p) == {v \in 1..MaxVersion : retired[p][v] = Never /\ v # platform[p]}

PlatformChanges(p) ==
  /\ \/ \E v \in Unused(p) : platform' = [platform EXCEPT ![p] = v]
     \/ platform[p] # 0 /\ platform' = [platform EXCEPT ![p] = 0]
  /\ Retire(p)
  /\ UNCHANGED <<registry, cache, lookup, hasKey, now>>

(* A request is answered or given up within Flight.                        *)
Tick ==
  /\ now < MaxNow
  /\ \A c \in Calls : lookup[c].state \in {"asked", "answered"} => now < lookup[c].since + Flight
  /\ now' = now + 1
  /\ UNCHANGED <<registry, cache, lookup, hasKey, truth>>

-----------------------------------------------------------------------------
(* A phone is routed to who claims it: when the files of the directory the *)
(* registry was last loaded from claim a phone, its lookup ends at once    *)
(* with one of them, a variant under its own name; when none does, a file  *)
(* never answers for it.                                                   *)
Claimants(p) == {f \in ToSet(source) : f.ok /\ p \in f.phones}
Routed(config, p) ==
  /\ config.kind = "file"
  /\ config.file \in Claimants(p)
  /\ config.meta = (IF config.file.experiment = NoExperiment THEN NoExperiment
                    ELSE config.file.variant)
LookedUp(c, p) ==
  /\ lookup[c].state = "idle" /\ lookup'[c].state # "idle"
  /\ IF Claimants(p) = {}
     THEN lookup'[c].state = "done" => lookup'[c].config.kind # "file"
     ELSE lookup'[c].state = "done" /\ Routed(lookup'[c].config, p)
RoutedToClaimant ==
  [][\A c \in Calls : lookup[c].state = "idle" /\ lookup'[c].state # "idle" =>
       \E p \in Phones : LookedUp(c, p)]_lookup

(* A lookup that does not fail hands out a configuration the platform had  *)
(* less than the cache's time and one request ago, never an older one.     *)
Fresh(p, v) == v \in 1..MaxVersion /\ now < retired[p][v] + Ttl + Flight
FreshConfig ==
  [][\A c \in Calls : lookup[c].state # "done" /\ lookup'[c].state = "done" =>
       \/ lookup'[c].config.kind # "platform"
       \/ \E p \in Phones : Fresh(p, lookup'[c].config.version)
       \/ FetchFails(c)]_lookup
=============================================================================
