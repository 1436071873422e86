---------------------------- MODULE DiscoveryProofs ----------------------------
(***************************************************************************)
(* Proofs about Discovery for any collections, documents, settings and     *)
(* bounds.                                                                 *)
(*                                                                         *)
(* 1. What a discovery run has refreshed and what a proxy serves, for runs *)
(* that overlap.  RefreshIsPrefix says nothing of a run that is under way. *)
(* RunInv says of every place of a run what it has written: what is no     *)
(* longer on its list, and while its upsert is applied the first of the    *)
(* list as well.  The list is cut in sorted order, and a run with an       *)
(* invalid allowlist is never active.  Only the upsert and the sampled     *)
(* collection of the run itself matter, so that other runs do not disturb  *)
(* it.                                                                     *)
(*                                                                         *)
(* 2. Discovery implements ProfileRegister, for runs that overlap, fail or *)
(* leave an upsert on the server.  The refinement maps the register to     *)
(* latest, the profile persisted last, and what is settled to the          *)
(* collections with one record and no second one on its way.  A proxy does *)
(* not read latest but any record of the metadata collection, so the       *)
(* argument is that the two agree where a collection is settled            *)
(* (RecordsAgree).  What is settled stays so: an upsert that finds a       *)
(* record replaces it, one that finds none is not of a settled collection, *)
(* and one that found none earlier has been counted since.  Only an insert *)
(* can settle a collection.                                                *)
(*                                                                         *)
(* 3. What a profile says was observed, whether or not runs overlap.       *)
(* SampledInv says of every sample under way that each of its documents    *)
(* was in the collection at some moment, and of every profile, stored, on  *)
(* its way or loaded, that such a sample was inferred from.                *)
(***************************************************************************)
EXTENDS Discovery, FiniteSetTheorems, TLAPS

-----------------------------------------------------------------------------
(* 1. Runs and starts *)

\* The types the argument needs.
ProgressTyped ==
    /\ run \in [Runs -> {"idle", "next", "sampling", "persisting", "done", "failed"}]
    /\ names \in [Runs -> SUBSET Collections]
    /\ upsert \in [Runs -> {"none", "sent", "inserting", "applied"}]
    /\ wrote \in [Runs -> SUBSET Collections]
    /\ DOMAIN cursor = Runs
    /\ \A r \in Runs : DOMAIN cursor[r] = {"collection", "ids", "documents"}
    /\ asked \in [Runs \cup Proxies -> {Unset} \cup Environments]
    /\ proxy \in [Proxies -> {"down", "loading", "serving", "refused"}]
    /\ wanted \in [Proxies -> SUBSET Collections]
    /\ DOMAIN loaded = Proxies

\* What a run has written and what is on its list.
Finished(r) == Configured(r) \ names[r]

\* The list of a run is what remains of its collections in sorted order.
ListIsRest(r) ==
    /\ names[r] \subseteq Configured(r)
    /\ Configured(r) \subseteq Collections
    /\ \A c \in names[r], d \in Finished(r) : Rank[d] =< Rank[c]

IsPrefixWritten(r) ==
    /\ wrote[r] \subseteq Configured(r)
    /\ \A c \in wrote[r], d \in Configured(r) : Rank[d] =< Rank[c] => d \in wrote[r]

\* What each place of a run knows of its list, its upsert and what it wrote.
Progress(r) ==
    /\ run[r] = "idle" => wrote[r] = {} /\ upsert[r] = "none"
    /\ RunIsActive(r) \/ InFlight(r) => ListIsRest(r)
    /\ run[r] \in {"next", "sampling"} => upsert[r] = "none"
    /\ run[r] \in {"next", "sampling"} \/ InFlight(r) => wrote[r] = Finished(r)
    /\ run[r] = "sampling" \/ InFlight(r) => IsFirst(cursor[r].collection, names[r])
    /\ run[r] = "persisting" /\ ~InFlight(r) =>
          /\ upsert[r] = "applied"
          /\ IsFirst(cursor[r].collection, names[r])
          /\ wrote[r] = Finished(r) \cup {cursor[r].collection}
    /\ run[r] = "done" => wrote[r] = Configured(r) /\ ~InFlight(r)
    /\ HasFault(asked[r]) => wrote[r] = {} /\ ~RunIsActive(r) /\ run[r] # "done" /\ ~InFlight(r)
    /\ IsPrefixWritten(r)

RunInv == ProgressTyped /\ \A r \in Runs : Progress(r)

-----------------------------------------------------------------------------
(* Settings *)

\* Trimming takes nothing but the blanks from a name.
LEMMA TrimKeepsText ==
    ASSUME NEW name \in Names
    PROVE  trim(name).text = name.text /\ trim(name) = [text |-> name.text, padded |-> FALSE]
<1>1. name = [text |-> name.text, padded |-> name.padded]
  BY DEF Names
<1>2. trim(name) = [[text |-> name.text, padded |-> name.padded] EXCEPT !.padded = FALSE]
  BY <1>1 DEF trim
<1>3. QED
  BY <1>2

\* What the settings are read as is the set of the names in them, all of them
\* collections and none of them at fault.
LEMMA ConfiguredIsGiven ==
    ASSUME NEW environment \in Environments,
           NEW configured \in parse_configured_collections(environment)
    PROVE  /\ configured = {name.text : name \in Given(environment)}
           /\ configured \subseteq Collections
           /\ ~HasFault(environment)
<1>1. \A name \in Given(environment) :
        name.text \notin {"", METADATA_COLLECTION} => name.text \in Collections
  BY EnvironmentsAssumption
<1>2. environment.list \in Seq(Names) /\ environment.legacy \subseteq Names
  BY EnvironmentsAssumption
<1>3. CASE IsBlank(environment.list)
  <2>1. PICK name \in environment.legacy : configured \in validated_collection_names(<<name>>)
    BY <1>3 DEF parse_configured_collections
  <2>2. environment.legacy = {name}
    BY <2>1, EnvironmentsAssumption
  <2>3. ToSet(<<name>>) = {name}
    BY DEF ToSet
  <2>4. /\ \A n \in ToSet(<<name>>) : n.text \notin {"", METADATA_COLLECTION}
        /\ configured = {n.text : n \in ToSet(<<name>>)}
    BY <2>1 DEF validated_collection_names
  <2>5. name.text \notin {"", METADATA_COLLECTION} /\ configured = {name.text}
    BY <2>3, <2>4
  <2>6. QED
    BY <1>1, <1>3, <2>2, <2>5 DEF Given, HasFault
<1>4. CASE ~IsBlank(environment.list)
  <2> DEFINE list == environment.list
             trimmed == [i \in DOMAIN list |-> trim(list[i])]
  <2>1. configured \in validated_collection_names(trimmed)
    BY <1>4 DEF parse_configured_collections
  <2>2. /\ trimmed # <<>>
        /\ IsInjective(trimmed)
        /\ \A name \in ToSet(trimmed) : name.text \notin {"", METADATA_COLLECTION}
        /\ configured = {name.text : name \in ToSet(trimmed)}
    BY <2>1 DEF validated_collection_names
  <2>3. DOMAIN trimmed = DOMAIN list
    OBVIOUS
  <2>4. \A i \in DOMAIN list : trimmed[i].text = list[i].text
    <3>1. SUFFICES ASSUME NEW i \in DOMAIN list
                   PROVE  trim(list[i]).text = list[i].text
      OBVIOUS
    <3>2. list[i] \in Names
      BY <1>2
    <3>3. QED
      BY <3>2, TrimKeepsText
  <2> HIDE DEF trimmed
  <2>5. ToSet(list) = {list[i] : i \in DOMAIN list} /\ ToSet(trimmed) = {trimmed[i] : i \in DOMAIN list}
    BY <2>3 DEF ToSet
  <2>6. configured = {name.text : name \in ToSet(list)}
    <3>1. configured = {trimmed[i].text : i \in DOMAIN list}
      BY <2>2, <2>5
    <3>2. {name.text : name \in ToSet(list)} = {list[i].text : i \in DOMAIN list}
      BY <2>5
    <3>3. QED
      BY <2>4, <3>1, <3>2
  <2>7. \A name \in ToSet(list) : name.text \notin {"", METADATA_COLLECTION}
    <3>1. SUFFICES ASSUME NEW i \in DOMAIN list
                   PROVE  list[i].text \notin {"", METADATA_COLLECTION}
      BY <2>5
    <3>2. trimmed[i] \in ToSet(trimmed)
      BY <2>5
    <3>3. QED
      BY <2>2, <2>4, <3>2
  <2>8. \A i, j \in DOMAIN list : list[i].text = list[j].text => i = j
    <3>1. SUFFICES ASSUME NEW i \in DOMAIN list, NEW j \in DOMAIN list,
                          list[i].text = list[j].text
                   PROVE  i = j
      OBVIOUS
    <3>2. list[i] \in Names /\ list[j] \in Names
      BY <1>2, <3>1
    <3>3. trim(list[i]) = trim(list[j])
      BY <3>1, <3>2, TrimKeepsText
    <3>4. trimmed[i] = trimmed[j]
      BY <3>3 DEF trimmed
    <3>5. QED
      BY <2>2, <2>3, <3>4 DEF IsInjective
  <2>9. ToSet(list) # {}
    <3>1. Len(list) \in Nat /\ DOMAIN list = 1 .. Len(list)
      BY <1>2
    <3>2. list # <<>>
      BY <1>4 DEF IsBlank
    <3>3. Len(list) # 0
      BY <1>2, <3>2
    <3>4. 1 \in DOMAIN list
      BY <3>1, <3>3
    <3>5. QED
      BY <2>5, <3>4
  <2>10. QED
    BY <1>1, <1>4, <2>6, <2>7, <2>8, <2>9 DEF Given, HasFault
<1>5. QED
  BY <1>3, <1>4

\* Without settings nothing is configured.
LEMMA UnsetIsFaulty == HasFault(Unset) /\ Given(Unset) = {}
BY DEF HasFault, Given, Unset, IsBlank

-----------------------------------------------------------------------------
(* Runs *)

LEMMA RunInitially == Init => RunInv
<1>1. SUFFICES ASSUME Init PROVE RunInv
  OBVIOUS
<1>2. ProgressTyped
  BY <1>1 DEF Init, ProgressTyped, NoCursor
<1>3. ASSUME NEW r \in Runs PROVE Progress(r)
  <2>1. asked[r] = Unset /\ run[r] = "idle" /\ wrote[r] = {} /\ upsert[r] = "none"
    BY <1>1 DEF Init
  <2>2. QED
    BY <2>1 DEF Progress, RunIsActive, InFlight, IsPrefixWritten
<1>4. QED
  BY <1>2, <1>3 DEF RunInv

\* A run is disturbed by nothing that leaves its own part of the state alone.
LEMMA ProgressFrame ==
    ASSUME NEW r \in Runs, Progress(r),
           run'[r] = run[r], names'[r] = names[r], upsert'[r] = upsert[r],
           wrote'[r] = wrote[r], asked'[r] = asked[r],
           cursor'[r].collection = cursor[r].collection
    PROVE  Progress(r)'
<1>1. Configured(r)' = Configured(r) /\ HasFault(asked[r])' = HasFault(asked[r])
  BY DEF Configured
<1>2. /\ RunIsActive(r)' = RunIsActive(r) /\ InFlight(r)' = InFlight(r)
      /\ Finished(r)' = Finished(r)
      /\ IsFirst(cursor[r].collection, names[r])' = IsFirst(cursor[r].collection, names[r])
  BY <1>1 DEF RunIsActive, InFlight, Finished
<1>3. ListIsRest(r)' = ListIsRest(r) /\ IsPrefixWritten(r)' = IsPrefixWritten(r)
  BY <1>1, <1>2 DEF ListIsRest, IsPrefixWritten
<1>4. QED
  BY <1>1, <1>2, <1>3 DEF Progress

LEMMA BeginProgress ==
    ASSUME RunInv, NEW r \in Runs, NEW environment \in Environments, BeginRun(r, environment)
    PROVE  RunInv'
<1> USE DEF RunInv
<1>1. /\ asked' = [asked EXCEPT ![r] = environment]
      /\ UNCHANGED <<cursor, upsert, wrote, proxy, wanted, loaded>>
      /\ run[r] = "idle" /\ wrote[r] = {} /\ upsert[r] = "none"
  BY DEF BeginRun, RunStep, proxyVars, Progress
<1>2. \/ run' = [run EXCEPT ![r] = "failed"] /\ names' = names
      \/ \E configured \in parse_configured_collections(environment) :
            run' = [run EXCEPT ![r] = "next"] /\ names' = [names EXCEPT ![r] = configured]
  BY DEF BeginRun
<1>3. ProgressTyped'
  BY <1>1, <1>2, ConfiguredIsGiven DEF ProgressTyped
<1>4. ASSUME NEW q \in Runs PROVE Progress(q)'
  <2>1. CASE q # r
    BY <1>1, <1>2, <2>1, ProgressFrame DEF ProgressTyped
  <2>2. CASE q = r /\ run' = [run EXCEPT ![r] = "failed"]
    <3>1. run'[r] = "failed" /\ wrote'[r] = {} /\ upsert'[r] = "none"
      BY <1>1, <2>2 DEF ProgressTyped
    <3>2. QED
      BY <2>2, <3>1 DEF Progress, RunIsActive, InFlight, IsPrefixWritten
  <2>3. ASSUME q = r, NEW configured \in parse_configured_collections(environment),
               run' = [run EXCEPT ![r] = "next"], names' = [names EXCEPT ![r] = configured]
        PROVE  Progress(q)'
    <3>1. /\ run'[r] = "next" /\ wrote'[r] = {} /\ upsert'[r] = "none"
          /\ names'[r] = configured /\ asked'[r] = environment
      BY <1>1, <2>3 DEF ProgressTyped
    <3>2. configured = Configured(r)' /\ configured \subseteq Collections /\ ~HasFault(environment)
      BY <3>1, ConfiguredIsGiven DEF Configured
    <3>3. Finished(r)' = {}
      BY <3>1, <3>2 DEF Finished
    <3>4. ListIsRest(r)'
      BY <3>1, <3>2, <3>3 DEF ListIsRest
    <3>5. ~HasFault(asked[r])'
      BY <3>1, <3>2
    <3>6. QED
      BY <2>3, <3>1, <3>3, <3>4, <3>5 DEF Progress, RunIsActive, InFlight, IsPrefixWritten
  <2>4. QED
    BY <1>2, <2>1, <2>2, <2>3
<1>5. QED
  BY <1>3, <1>4

\* The steps of a run between two writes change neither what is configured nor
\* what is written.
LEMMA SamplingProgress ==
    ASSUME RunInv, NEW r \in Runs, OpenCursor(r) \/ SampleDocument(r) \/ FinishSample(r)
    PROVE  RunInv'
<1> USE DEF RunInv
<1>1. UNCHANGED <<asked, names, wrote, proxy, wanted, loaded>>
  BY DEF OpenCursor, SampleDocument, FinishSample, RunStep, proxyVars
<1>2. CASE OpenCursor(r)
  <2>1. PICK c \in names[r] :
          /\ IsFirst(c, names[r])
          /\ cursor' = [cursor EXCEPT ![r] = [collection |-> c, ids |-> DOMAIN source[c],
                                              documents |-> NoCursor.documents]]
    BY <1>2 DEF OpenCursor
  <2>2. run[r] = "next" /\ run' = [run EXCEPT ![r] = "sampling"] /\ upsert' = upsert
    BY <1>2 DEF OpenCursor
  <2>3. ProgressTyped'
    BY <1>1, <2>1, <2>2 DEF ProgressTyped
  <2>4. run'[r] = "sampling" /\ cursor'[r].collection = c
    BY <2>1, <2>2 DEF ProgressTyped
  <2>5. Progress(r)'
    BY <1>1, <2>1, <2>2, <2>4 DEF Progress, RunIsActive, InFlight, ListIsRest, Finished, IsFirst,
       IsPrefixWritten, Configured
  <2>6. \A q \in Runs \ {r} : Progress(q)'
    BY <1>1, <2>1, <2>2, ProgressFrame DEF ProgressTyped
  <2>7. QED
    BY <2>3, <2>5, <2>6
<1>3. CASE SampleDocument(r)
  <2>1. run' = run /\ upsert' = upsert
    BY <1>3 DEF SampleDocument
  <2>2. PICK documents : cursor' = [cursor EXCEPT ![r].documents = documents]
    BY <1>3 DEF SampleDocument
  <2>3. DOMAIN cursor' = Runs /\ \A q \in Runs : DOMAIN cursor'[q] = DOMAIN cursor[q]
    BY <2>2 DEF ProgressTyped
  <2>4. \A q \in Runs : cursor'[q].collection = cursor[q].collection
    BY <2>2 DEF ProgressTyped
  <2>5. ProgressTyped'
    BY <1>1, <2>1, <2>3 DEF ProgressTyped
  <2>6. \A q \in Runs : Progress(q)'
    BY <1>1, <2>1, <2>4, ProgressFrame
  <2>7. QED
    BY <2>5, <2>6
<1>4. CASE FinishSample(r)
  <2>1. /\ run[r] = "sampling"
        /\ run' = [run EXCEPT ![r] = "persisting"]
        /\ upsert' = [upsert EXCEPT ![r] = "sent"]
        /\ cursor' = cursor
    BY <1>4 DEF FinishSample
  <2>2. ProgressTyped'
    BY <1>1, <2>1 DEF ProgressTyped
  <2>3. run'[r] = "persisting" /\ upsert'[r] = "sent"
    BY <2>1 DEF ProgressTyped
  <2>4. Progress(r)'
    BY <1>1, <2>1, <2>3 DEF Progress, RunIsActive, InFlight, ListIsRest, Finished, IsFirst,
       IsPrefixWritten, Configured
  <2>5. \A q \in Runs \ {r} : Progress(q)'
    BY <1>1, <2>1, ProgressFrame DEF ProgressTyped
  <2>6. QED
    BY <2>2, <2>4, <2>5
<1>5. QED
  BY <1>2, <1>3, <1>4

\* The first of the list is the next in sorted order, so that what is written up
\* to it and including it is a prefix.
LEMMA FirstExtendsPrefix ==
    ASSUME NEW r \in Runs, NEW c, ListIsRest(r), IsFirst(c, names[r])
    PROVE  /\ c \in Configured(r)
           /\ \A x \in Finished(r) \cup {c}, d \in Configured(r) :
                 Rank[d] =< Rank[x] => d \in Finished(r) \cup {c}
<1>1. c \in names[r] /\ c \in Configured(r)
  BY DEF ListIsRest, IsFirst
<1>2. ASSUME NEW x \in Finished(r) \cup {c}, NEW d \in Configured(r), Rank[d] =< Rank[x],
             d \notin Finished(r), d # c
      PROVE  FALSE
  <2>1. d \in names[r] /\ Rank[c] =< Rank[d]
    BY <1>2 DEF Finished, IsFirst
  <2>2. Rank[x] =< Rank[c]
    BY <1>1, <1>2, CollectionsAssumption DEF ListIsRest
  <2>3. c \in Collections /\ d \in Collections /\ x \in Collections
    BY <1>1, <1>2 DEF ListIsRest, Finished
  <2>4. Rank[c] = Rank[d]
    BY <1>2, <2>1, <2>2, <2>3, CollectionsAssumption
  <2>5. QED
    BY <1>2, <2>3, <2>4, CollectionsAssumption
<1>3. QED
  BY <1>1, <1>2

LEMMA PersistProgress ==
    ASSUME RunInv, NEW r \in Runs, PersistOk(r)
    PROVE  RunInv'
<1> USE DEF RunInv
<1> DEFINE c == cursor[r].collection
<1>1. /\ run[r] = "persisting" /\ upsert[r] = "applied"
      /\ names' = [names EXCEPT ![r] = @ \ {c}]
      /\ \/ run' = [run EXCEPT ![r] = "done"] /\ names'[r] = {}
         \/ run' = [run EXCEPT ![r] = "next"]
      /\ upsert' = [upsert EXCEPT ![r] = "none"]
      /\ UNCHANGED <<asked, cursor, wrote, proxy, wanted, loaded>>
  BY DEF PersistOk, RunStep, proxyVars
<1>2. ProgressTyped'
  BY <1>1 DEF ProgressTyped
<1>3. names'[r] = names[r] \ {c} /\ upsert'[r] = "none" /\ run'[r] \in {"done", "next"}
  BY <1>1 DEF ProgressTyped
<1>4. ListIsRest(r) /\ IsFirst(c, names[r]) /\ wrote[r] = Finished(r) \cup {c}
      /\ ~HasFault(asked[r]) /\ IsPrefixWritten(r)
  BY <1>1 DEF Progress, RunIsActive, InFlight
<1>5. Configured(r)' = Configured(r) /\ HasFault(asked[r])' = HasFault(asked[r])
  BY <1>1 DEF Configured
<1>6. Finished(r)' = Finished(r) \cup {c}
  BY <1>3, <1>4, <1>5 DEF Finished, ListIsRest, IsFirst
<1>7. ListIsRest(r)'
  <2>1. names'[r] \subseteq Configured(r)' /\ Configured(r)' \subseteq Collections
    BY <1>3, <1>4, <1>5 DEF ListIsRest
  <2>2. ASSUME NEW x \in names'[r], NEW d \in Finished(r)' PROVE Rank[d] =< Rank[x]
    BY <1>3, <1>4, <1>6, <2>2 DEF ListIsRest, IsFirst
  <2>3. QED
    BY <2>1, <2>2 DEF ListIsRest
<1>8. wrote'[r] = Finished(r)' /\ IsPrefixWritten(r)'
  BY <1>1, <1>4, <1>5, <1>6 DEF IsPrefixWritten
<1>9. names'[r] = {} => wrote'[r] = Configured(r)'
  BY <1>8 DEF Finished
<1>10. run'[r] = "done" => names'[r] = {}
  BY <1>1 DEF ProgressTyped
<1>11. Progress(r)'
  BY <1>3, <1>4, <1>5, <1>7, <1>8, <1>9, <1>10 DEF Progress, RunIsActive, InFlight
<1>12. \A q \in Runs \ {r} : Progress(q)'
  BY <1>1, ProgressFrame DEF ProgressTyped
<1>13. QED
  BY <1>2, <1>11, <1>12

LEMMA FailProgress ==
    ASSUME RunInv, NEW r \in Runs, RunFail(r)
    PROVE  RunInv'
<1> USE DEF RunInv
<1>1. /\ RunIsActive(r)
      /\ run' = [run EXCEPT ![r] = "failed"]
      /\ \/ upsert' = upsert
         \/ upsert' = [upsert EXCEPT ![r] = "none"]
      /\ UNCHANGED <<asked, names, cursor, wrote, proxy, wanted, loaded>>
  BY DEF RunFail, RunStep, proxyVars
<1>2. ProgressTyped'
  BY <1>1 DEF ProgressTyped
<1>3. run'[r] = "failed" /\ upsert'[r] \in {upsert[r], "none"}
  BY <1>1 DEF ProgressTyped
<1>4. /\ Configured(r)' = Configured(r) /\ HasFault(asked[r])' = HasFault(asked[r])
      /\ Finished(r)' = Finished(r) /\ IsPrefixWritten(r)' = IsPrefixWritten(r)
      /\ ListIsRest(r)' = ListIsRest(r)
      /\ IsFirst(cursor[r].collection, names[r])' = IsFirst(cursor[r].collection, names[r])
      /\ InFlight(r)' => InFlight(r)
  BY <1>1, <1>3 DEF Configured, Finished, IsPrefixWritten, ListIsRest, InFlight
<1>5. Progress(r)'
  BY <1>1, <1>3, <1>4 DEF Progress, RunIsActive
<1>6. \A q \in Runs \ {r} : Progress(q)'
  BY <1>1, ProgressFrame DEF ProgressTyped
<1>7. QED
  BY <1>2, <1>5, <1>6

\* The write of a profile: the run is persisting, or has failed meanwhile.
LEMMA StoreProgress ==
    ASSUME RunInv, NEW r \in Runs, NEW id, InFlight(r), StoreProfile(r, id)
    PROVE  RunInv'
<1> USE DEF RunInv
<1> DEFINE c == cursor[r].collection
<1>1. /\ wrote' = [wrote EXCEPT ![r] = @ \cup {c}]
      /\ upsert' = [upsert EXCEPT ![r] = "applied"]
      /\ UNCHANGED <<asked, run, names, cursor, proxy, wanted, loaded>>
  BY DEF StoreProfile, RunStep, proxyVars
<1>2. /\ ListIsRest(r) /\ IsFirst(c, names[r]) /\ wrote[r] = Finished(r)
      /\ run[r] \in {"persisting", "failed"} /\ ~HasFault(asked[r])
  BY DEF Progress, InFlight, ProgressTyped
<1>3. c \in Configured(r) /\ Configured(r) \subseteq Collections
  BY <1>2, FirstExtendsPrefix DEF ListIsRest
<1>4. ProgressTyped'
  BY <1>1, <1>3 DEF ProgressTyped
<1>5. wrote'[r] = Finished(r) \cup {c} /\ upsert'[r] = "applied"
  BY <1>1, <1>2 DEF ProgressTyped
<1>6. /\ Configured(r)' = Configured(r) /\ Finished(r)' = Finished(r)
      /\ ListIsRest(r)' = ListIsRest(r)
      /\ HasFault(asked[r])' = HasFault(asked[r])
  BY <1>1 DEF Configured, Finished, ListIsRest
<1>7. IsPrefixWritten(r)'
  BY <1>2, <1>3, <1>5, <1>6, FirstExtendsPrefix DEF IsPrefixWritten, Finished
<1>8. Progress(r)'
  BY <1>1, <1>2, <1>5, <1>6, <1>7 DEF Progress, InFlight
<1>9. \A q \in Runs \ {r} : Progress(q)'
  BY <1>1, ProgressFrame DEF ProgressTyped
<1>10. QED
  BY <1>4, <1>8, <1>9

LEMMA UpsertProgress ==
    ASSUME RunInv, NEW r \in Runs, UpsertReplace(r) \/ UpsertMiss(r) \/ UpsertInsert(r)
    PROVE  RunInv'
<1>1. CASE UpsertReplace(r)
  BY <1>1, StoreProgress DEF UpsertReplace, InFlight
<1>2. CASE UpsertInsert(r)
  BY <1>2, StoreProgress DEF UpsertInsert, InFlight
<1>3. CASE UpsertMiss(r)
  <2>1. /\ upsert[r] = "sent"
        /\ upsert' = [upsert EXCEPT ![r] = "inserting"]
        /\ UNCHANGED <<asked, run, names, cursor, wrote, proxy, wanted, loaded>>
    BY <1>3 DEF UpsertMiss, RunStep, proxyVars
  <2>2. ProgressTyped'
    BY <2>1 DEF RunInv, ProgressTyped
  <2>3. upsert'[r] = "inserting" /\ Progress(r)
    BY <2>1 DEF RunInv, ProgressTyped
  <2>4. /\ Configured(r)' = Configured(r) /\ HasFault(asked[r])' = HasFault(asked[r])
        /\ Finished(r)' = Finished(r) /\ IsPrefixWritten(r)' = IsPrefixWritten(r)
        /\ ListIsRest(r)' = ListIsRest(r)
        /\ IsFirst(cursor[r].collection, names[r])' = IsFirst(cursor[r].collection, names[r])
        /\ RunIsActive(r)' = RunIsActive(r)
    BY <2>1 DEF Configured, Finished, IsPrefixWritten, ListIsRest, RunIsActive
  <2>5. Progress(r)'
    BY <2>1, <2>3, <2>4 DEF Progress, InFlight
  <2>6. \A q \in Runs \ {r} : Progress(q)'
    BY <2>1, ProgressFrame DEF RunInv, ProgressTyped
  <2>7. QED
    BY <2>2, <2>5, <2>6 DEF RunInv
<1>4. QED
  BY <1>1, <1>2, <1>3

-----------------------------------------------------------------------------
(* Proxies *)

\* What a proxy has loaded and what it has yet to load are what it was asked for.
StartProgress(p) ==
    /\ proxy[p] = "down" => DOMAIN loaded[p] = {}
    /\ proxy[p] = "loading" => DOMAIN loaded[p] \cup wanted[p] = Configured(p)
    /\ proxy[p] = "serving" => DOMAIN loaded[p] = Configured(p)

ProgressInv == RunInv /\ \A p \in Proxies : StartProgress(p)

LEMMA ProxiesLeaveRuns ==
    ASSUME RunInv, ProgressTyped', UNCHANGED runVars, \A r \in Runs : asked'[r] = asked[r]
    PROVE  RunInv'
<1>1. \A r \in Runs : Progress(r)'
  BY ProgressFrame DEF RunInv, runVars
<1>2. QED
  BY <1>1 DEF RunInv

LEMMA StartKeepsProgress ==
    ASSUME ProgressInv, NEW p \in Proxies, NEW environment \in Environments,
           StartProxy(p, environment)
    PROVE  ProgressInv'
<1> USE DEF ProgressInv
<1>1. /\ asked' = [asked EXCEPT ![p] = environment]
      /\ UNCHANGED runVars /\ loaded' = loaded
      /\ proxy[p] = "down" /\ DOMAIN loaded[p] = {}
  BY DEF StartProxy, ProxyStep, StartProgress
<1>2. \/ proxy' = [proxy EXCEPT ![p] = "refused"] /\ wanted' = wanted
      \/ \E configured \in parse_configured_collections(environment) :
            proxy' = [proxy EXCEPT ![p] = "loading"] /\ wanted' = [wanted EXCEPT ![p] = configured]
  BY DEF StartProxy
<1>3. ProgressTyped'
  BY <1>1, <1>2, ConfiguredIsGiven DEF RunInv, ProgressTyped, runVars
<1>4. \A r \in Runs : asked'[r] = asked[r]
  BY <1>1, ProcessesAssumption DEF RunInv, ProgressTyped
<1>5. RunInv'
  BY <1>1, <1>3, <1>4, ProxiesLeaveRuns
<1>6. ASSUME NEW q \in Proxies, q # p PROVE StartProgress(q)'
  BY <1>1, <1>2, <1>6 DEF StartProgress, Configured, RunInv, ProgressTyped
<1>7. StartProgress(p)'
  <2>1. CASE proxy' = [proxy EXCEPT ![p] = "refused"]
    BY <2>1 DEF StartProgress, RunInv, ProgressTyped
  <2>2. ASSUME NEW configured \in parse_configured_collections(environment),
               proxy' = [proxy EXCEPT ![p] = "loading"],
               wanted' = [wanted EXCEPT ![p] = configured]
        PROVE  StartProgress(p)'
    <3>1. proxy'[p] = "loading" /\ wanted'[p] = configured /\ asked'[p] = environment
      BY <1>1, <2>2 DEF RunInv, ProgressTyped
    <3>2. configured = Configured(p)'
      BY <3>1, ConfiguredIsGiven DEF Configured
    <3>3. QED
      BY <1>1, <3>1, <3>2 DEF StartProgress
  <2>3. QED
    BY <1>2, <2>1, <2>2
<1>8. QED
  BY <1>5, <1>6, <1>7

LEMMA LoadingKeepsProgress ==
    ASSUME ProgressInv, NEW p \in Proxies,
           LoadProfile(p) \/ LoadMissing(p) \/ LoadFail(p) \/ StopProxy(p)
    PROVE  ProgressInv'
<1> USE DEF ProgressInv
<1>1. UNCHANGED runVars /\ asked' = asked
  BY DEF LoadProfile, LoadMissing, LoadFail, StopProxy, ProxyStep
<1>2. CASE LoadProfile(p)
  <2>1. PICK c \in wanted[p], id \in DOMAIN metadata :
          /\ loaded' = [loaded EXCEPT ![p] =
                [e \in DOMAIN @ \cup {c} |-> IF e = c THEN metadata[id] ELSE @[e]]]
          /\ wanted' = [wanted EXCEPT ![p] = @ \ {c}]
          /\ proxy' = [proxy EXCEPT ![p] = IF wanted[p] = {c} THEN "serving" ELSE "loading"]
    BY <1>2 DEF LoadProfile, Records
  <2>2. proxy[p] = "loading"
    BY <1>2 DEF LoadProfile
  <2>3. ProgressTyped'
    BY <1>1, <2>1 DEF RunInv, ProgressTyped, runVars
  <2>4. /\ DOMAIN loaded'[p] = DOMAIN loaded[p] \cup {c}
        /\ wanted'[p] = wanted[p] \ {c}
        /\ proxy'[p] = IF wanted[p] = {c} THEN "serving" ELSE "loading"
    BY <2>1 DEF RunInv, ProgressTyped
  <2>5. StartProgress(p)'
    BY <1>1, <2>1, <2>2, <2>4 DEF StartProgress, Configured
  <2>6. \A q \in Proxies \ {p} : StartProgress(q)'
    BY <1>1, <2>1 DEF StartProgress, Configured, RunInv, ProgressTyped
  <2>7. QED
    BY <1>1, <2>3, <2>5, <2>6, ProxiesLeaveRuns
<1>3. CASE LoadMissing(p) \/ LoadFail(p)
  <2>1. proxy' = [proxy EXCEPT ![p] = "refused"] /\ UNCHANGED <<wanted, loaded>>
    BY <1>3 DEF LoadMissing, LoadFail
  <2>2. ProgressTyped'
    BY <1>1, <2>1 DEF RunInv, ProgressTyped, runVars
  <2>3. \A q \in Proxies : StartProgress(q)'
    BY <1>1, <2>1 DEF StartProgress, Configured, RunInv, ProgressTyped
  <2>4. QED
    BY <1>1, <2>2, <2>3, ProxiesLeaveRuns
<1>4. CASE StopProxy(p)
  <2>1. /\ proxy' = [proxy EXCEPT ![p] = "down"]
        /\ wanted' = [wanted EXCEPT ![p] = {}]
        /\ loaded' = [loaded EXCEPT ![p] = [c \in {} |-> {}]]
    BY <1>4 DEF StopProxy
  <2>2. ProgressTyped'
    BY <1>1, <2>1 DEF RunInv, ProgressTyped, runVars
  <2>3. StartProgress(p)'
    BY <2>1 DEF StartProgress, RunInv, ProgressTyped
  <2>4. \A q \in Proxies \ {p} : StartProgress(q)'
    BY <1>1, <2>1 DEF StartProgress, Configured, RunInv, ProgressTyped
  <2>5. QED
    BY <1>1, <2>2, <2>3, <2>4, ProxiesLeaveRuns
<1>5. QED
  BY <1>2, <1>3, <1>4

-----------------------------------------------------------------------------
(* All steps *)

LEMMA ProgressInitially == Init => ProgressInv
<1>1. Init => \A p \in Proxies : StartProgress(p)
  BY DEF Init, StartProgress
<1>2. QED
  BY <1>1, RunInitially DEF ProgressInv

LEMMA ProgressInductive == ProgressInv /\ [Next]_vars => ProgressInv'
<1>1. SUFFICES ASSUME ProgressInv, [Next]_vars PROVE ProgressInv'
  OBVIOUS
<1>2. RunInv /\ ProgressTyped
  BY <1>1 DEF ProgressInv, RunInv
<1>3. ASSUME UNCHANGED <<runVars, proxyVars, asked>> PROVE ProgressInv'
  <2>1. ProgressTyped'
    BY <1>2, <1>3 DEF ProgressTyped, runVars, proxyVars
  <2>2. RunInv'
    BY <1>2, <1>3, <2>1, ProxiesLeaveRuns
  <2>3. \A p \in Proxies : StartProgress(p)'
    BY <1>1, <1>3 DEF ProgressInv, StartProgress, Configured, proxyVars
  <2>4. QED
    BY <2>2, <2>3 DEF ProgressInv
<1>4. ASSUME NEW r \in Runs, RunNext(r) PROVE ProgressInv'
  <2>1. RunInv'
    BY <1>2, <1>4, BeginProgress, SamplingProgress, PersistProgress, FailProgress, UpsertProgress
       DEF RunNext
  <2>2. UNCHANGED proxyVars
    BY <1>4 DEF RunNext, BeginRun, OpenCursor, SampleDocument, FinishSample, PersistOk, RunFail,
       UpsertReplace, UpsertMiss, UpsertInsert, StoreProfile, RunStep
  <2>3. asked' = asked \/ \E environment \in Environments : asked' = [asked EXCEPT ![r] = environment]
    BY <1>4 DEF RunNext, BeginRun, OpenCursor, SampleDocument, FinishSample, PersistOk, RunFail,
       UpsertReplace, UpsertMiss, UpsertInsert, StoreProfile
  <2>4. \A p \in Proxies : asked'[p] = asked[p]
    BY <1>2, <2>3, ProcessesAssumption DEF ProgressTyped
  <2>5. \A p \in Proxies : StartProgress(p)'
    BY <1>1, <2>2, <2>4 DEF ProgressInv, StartProgress, Configured, proxyVars
  <2>6. QED
    BY <2>1, <2>5 DEF ProgressInv
<1>5. ASSUME NEW p \in Proxies, ProxyNext(p) PROVE ProgressInv'
  BY <1>1, <1>5, StartKeepsProgress, LoadingKeepsProgress DEF ProxyNext
<1>6. CASE SourceNext
  BY <1>3, <1>6 DEF SourceNext, StoreDocument, RemoveDocument, Change
<1>7. CASE UNCHANGED vars
  BY <1>3, <1>7 DEF vars
<1>8. QED
  BY <1>1, <1>4, <1>5, <1>6, <1>7 DEF Next

LEMMA ProgressInvariant == Spec => []ProgressInv
BY ProgressInitially, ProgressInductive, PTL DEF Spec

\* Whatever stops a run and whatever other runs do, it has refreshed a prefix of
\* its sorted list, and all of it when it reports success.
THEOREM RefreshesArePrefixes == Spec => []RefreshIsPrefix
<1>1. ProgressInv => RefreshIsPrefix
  BY DEF ProgressInv, RunInv, Progress, IsPrefixWritten, RefreshIsPrefix
<1>2. QED
  BY <1>1, ProgressInvariant, PTL

\* A run whose allowlist has a fault anywhere changes no profile.
THEOREM FaultyListsChangeNothing == Spec => []InvalidAllowlistChangesNothing
<1>1. ProgressInv => InvalidAllowlistChangesNothing
  BY DEF ProgressInv, RunInv, Progress, InvalidAllowlistChangesNothing
<1>2. QED
  BY <1>1, ProgressInvariant, PTL

\* A proxy that serves has a profile for exactly the collections it was given.
THEOREM ServedTablesAreConfigured == Spec => []ServingIsComplete
<1>1. ProgressInv => ServingIsComplete
  BY DEF ProgressInv, StartProgress, ServingIsComplete
<1>2. QED
  BY <1>1, ProgressInvariant, PTL

-----------------------------------------------------------------------------
(* 2. The refinement, for runs that may overlap *)

Loads == UNION {[some -> Profiles] : some \in SUBSET Collections}

\* The types the argument needs.
Typed ==
    /\ source \in [Collections -> UNION {Contents(c) : c \in Collections}]
    /\ \A c \in Collections : source[c] \in Contents(c)
    /\ run \in [Runs -> {"idle", "next", "sampling", "persisting", "done", "failed"}]
    /\ names \in [Runs -> SUBSET Collections]
    /\ cursor \in [Runs -> [collection : Collections \cup {""}, ids : SUBSET Ids,
                            documents : Samples]]
    /\ profile \in [Runs -> Profiles]
    /\ upsert \in [Runs -> {"none", "sent", "inserting", "applied"}]
    /\ wanted \in [Proxies -> SUBSET Collections]
    /\ proxy \in [Proxies -> {"down", "loading", "serving", "refused"}]
    /\ loaded \in [Proxies -> Loads]
    /\ latest \in [Collections -> SUBSET Profiles]

\* An upsert is on the server only after its run has sampled its collection.
RunsInOrder ==
    \A r \in Runs :
        /\ run[r] \in {"idle", "next", "sampling"} => ~InFlight(r)
        /\ run[r] \in {"sampling", "persisting"} \/ InFlight(r)
              => cursor[r].collection \in Collections

\* The record of a settled collection holds what was persisted last.
RecordsAgree ==
    /\ \A id \in DOMAIN metadata : id[2] \in Collections /\ metadata[id] \in Profiles
    /\ \A c \in Collections : \A id \in Records(c) : Settled(c) => latest[c] = {metadata[id]}

SettledOnes == {c \in Collections : Settled(c)}

\* A proxy has loaded none of the collections it has yet to load.
StartsAreFresh ==
    \A p \in Proxies :
        /\ proxy[p] = "down" => loaded[p] = [c \in {} |-> {}]
        /\ proxy[p] = "loading" => wanted[p] \cap DOMAIN loaded[p] = {}

RegisterInv == Typed /\ RunsInOrder /\ RecordsAgree /\ StartsAreFresh

-----------------------------------------------------------------------------
(* Samples and loads *)

\* A cursor that has read nothing has a sample.
LEMMA EmptyIsSample == NoCursor.documents \in Samples
<1>1. NoCursor.documents \in [{} -> UNION {Documents[c] : c \in Collections}]
  BY DEF NoCursor
<1>2. QED
  BY <1>1 DEF Samples

\* One more document of a collection, read under its id, leaves a sample.
LEMMA SampleGrows ==
    ASSUME NEW documents \in Samples, NEW d \in Ids,
           NEW c \in Collections, NEW document \in Documents[c]
    PROVE  [e \in DOMAIN documents \cup {d} |-> IF e = d THEN document ELSE documents[e]] \in Samples
<1>1. PICK read \in SUBSET Ids : documents \in [read -> UNION {Documents[e] : e \in Collections}]
  BY DEF Samples
<1>2. read \cup {d} \in SUBSET Ids /\ DOMAIN documents = read
  BY <1>1
<1>3. [e \in read \cup {d} |-> IF e = d THEN document ELSE documents[e]]
        \in [read \cup {d} -> UNION {Documents[e] : e \in Collections}]
  BY <1>1
<1>4. QED
  BY <1>2, <1>3 DEF Samples

\* What a collection holds, it may hold.
LEMMA HeldIsDocument ==
    ASSUME Typed, NEW c \in Collections, NEW d \in DOMAIN source[c]
    PROVE  d \in Ids /\ source[c][d] \in Documents[c]
<1>1. PICK present \in SUBSET Ids : source[c] \in [present -> Documents[c]]
  BY DEF Typed, Contents
<1>2. QED
  BY <1>1

\* Storing and removing a document of a collection.
LEMMA ContentsChange ==
    ASSUME Typed, NEW c \in Collections, NEW d \in Ids, NEW document \in Documents[c]
    PROVE  /\ [e \in DOMAIN source[c] \cup {d} |-> IF e = d THEN document ELSE source[c][e]]
                 \in Contents(c)
           /\ [e \in DOMAIN source[c] \ {d} |-> source[c][e]] \in Contents(c)
<1>1. PICK present \in SUBSET Ids : source[c] \in [present -> Documents[c]]
  BY DEF Typed, Contents
<1>2. /\ [e \in DOMAIN source[c] \cup {d} |-> IF e = d THEN document ELSE source[c][e]]
            \in [present \cup {d} -> Documents[c]]
      /\ [e \in DOMAIN source[c] \ {d} |-> source[c][e]] \in [present \ {d} -> Documents[c]]
  BY <1>1
<1>3. present \cup {d} \in SUBSET Ids /\ present \ {d} \in SUBSET Ids
  OBVIOUS
<1>4. QED
  BY <1>2, <1>3 DEF Contents

\* A proxy that loads one more profile.
LEMMA LoadGrows ==
    ASSUME NEW some \in Loads, NEW c \in Collections, NEW x \in Profiles
    PROVE  [e \in DOMAIN some \cup {c} |-> IF e = c THEN x ELSE some[e]] \in Loads
<1>1. PICK cs \in SUBSET Collections : some \in [cs -> Profiles]
  BY DEF Loads
<1>2. [e \in cs \cup {c} |-> IF e = c THEN x ELSE some[e]] \in [cs \cup {c} -> Profiles]
  BY <1>1
<1>3. cs \cup {c} \in SUBSET Collections /\ DOMAIN some = cs
  BY <1>1
<1>4. QED
  BY <1>2, <1>3 DEF Loads

LEMMA NothingIsLoad == [c \in {} |-> {}] \in Loads
<1>1. [c \in {} |-> {}] \in [{} -> Profiles]
  OBVIOUS
<1>2. QED
  BY <1>1 DEF Loads

\* A step that leaves the records and the upserts that insert leaves what is settled.
RegisterUndisturbed ==
    /\ UNCHANGED <<metadata, latest>>
    /\ \A q \in Runs :
          /\ upsert'[q] = "inserting" <=> upsert[q] = "inserting"
          /\ upsert[q] = "inserting" => cursor'[q].collection = cursor[q].collection

LEMMA UndisturbedAgrees ==
    ASSUME RecordsAgree, RegisterUndisturbed
    PROVE  RecordsAgree' /\ UNCHANGED <<latest, SettledOnes>>
<1>1. \A c \in Collections : Settled(c)' <=> Settled(c)
  BY DEF RegisterUndisturbed, Settled, Records
<1>2. \A c \in Collections : Records(c)' = Records(c)
  BY DEF RegisterUndisturbed, Records
<1>3. RecordsAgree'
  BY <1>1, <1>2 DEF RecordsAgree, RegisterUndisturbed, Records
<1>4. QED
  BY <1>1, <1>3 DEF SettledOnes, RegisterUndisturbed

-----------------------------------------------------------------------------
(* The invariant *)

LEMMA RegisterInitially == Init => RegisterInv
<1>1. SUFFICES ASSUME Init PROVE RegisterInv
  OBVIOUS
<1>2. Typed
  <2>1. infer(NoCursor.documents) \in Profiles
    BY EmptyIsSample DEF Profiles
  <2>2. NoCursor \in [collection : Collections \cup {""}, ids : SUBSET Ids, documents : Samples]
    BY EmptyIsSample DEF NoCursor
  <2>3. QED
    BY <1>1, <2>1, <2>2, NothingIsLoad DEF Init, Typed
<1>3. RunsInOrder /\ StartsAreFresh
  BY <1>1 DEF Init, InFlight, RunsInOrder, StartsAreFresh
<1>4. RecordsAgree
  BY <1>1 DEF Init, RecordsAgree, Records
<1>5. QED
  BY <1>2, <1>3, <1>4 DEF RegisterInv

\* Changes of the source collections concern the types only.
LEMMA ChangesKeepRegister ==
    ASSUME RegisterInv, SourceNext
    PROVE  RegisterInv' /\ UNCHANGED <<latest, SettledOnes, loaded>>
<1>1. PICK c \in Collections, d \in Ids :
          \/ \E document \in Documents[c] : StoreDocument(c, d, document)
          \/ RemoveDocument(c, d)
  BY DEF SourceNext
<1>2. \E content \in Contents(c) :
          /\ source' = [source EXCEPT ![c] = content]
          /\ UNCHANGED <<runVars, proxyVars>>
  <2>1. CASE \E document \in Documents[c] : StoreDocument(c, d, document)
    BY <2>1, ContentsChange DEF StoreDocument, Change, RegisterInv
  <2>2. CASE RemoveDocument(c, d)
    <3>1. PICK document \in Documents[c] : TRUE
      BY <2>2, HeldIsDocument DEF RemoveDocument, RegisterInv
    <3>2. QED
      BY <2>2, <3>1, ContentsChange DEF RemoveDocument, Change, RegisterInv
  <2>3. QED
    BY <1>1, <2>1, <2>2
<1>3. Typed'
  <2>1. PICK content \in Contents(c) :
            /\ source' = [source EXCEPT ![c] = content]
            /\ UNCHANGED <<runVars, proxyVars>>
    BY <1>2
  <2>2. content \in UNION {Contents(e) : e \in Collections}
    OBVIOUS
  <2>3. /\ source' \in [Collections -> UNION {Contents(e) : e \in Collections}]
        /\ \A e \in Collections : source'[e] \in Contents(e)
    BY <2>1, <2>2 DEF RegisterInv, Typed
  <2>4. QED
    BY <2>1, <2>3 DEF RegisterInv, Typed, runVars, proxyVars
<1>4. RunsInOrder' /\ StartsAreFresh' /\ RegisterUndisturbed /\ UNCHANGED loaded
  BY <1>2 DEF RegisterInv, runVars, proxyVars, InFlight, RunsInOrder, StartsAreFresh,
              RegisterUndisturbed
<1>5. QED
  BY <1>3, <1>4, UndisturbedAgrees DEF RegisterInv

\* What the steps of a run leave alone keeps a start fresh.
LEMMA RunsLeaveStarts ==
    ASSUME StartsAreFresh, UNCHANGED proxyVars
    PROVE  StartsAreFresh'
BY DEF StartsAreFresh, proxyVars

\* A run that begins has no upsert on the server.
LEMMA BeginKeepsRegister ==
    ASSUME RegisterInv, NEW r \in Runs, NEW environment \in Environments,
           BeginRun(r, environment)
    PROVE  RegisterInv' /\ UNCHANGED <<latest, SettledOnes, loaded>>
<1> USE DEF RegisterInv
<1>1. /\ run[r] = "idle"
      /\ \E place \in {"failed", "next"} : run' = [run EXCEPT ![r] = place]
      /\ UNCHANGED <<source, metadata, cursor, profile, upsert, latest, proxyVars>>
  BY DEF BeginRun, RunStep, sourceVars
<1>2. names' \in [Runs -> SUBSET Collections]
  <2>1. \A configured \in parse_configured_collections(environment) : configured \subseteq Collections
    BY ConfiguredIsGiven
  <2>2. QED
    BY <2>1 DEF BeginRun, Typed
<1>3. Typed'
  BY <1>1, <1>2 DEF Typed, proxyVars
<1>4. RunsInOrder'
  BY <1>1 DEF Typed, RunsInOrder, InFlight
<1>5. RegisterUndisturbed /\ UNCHANGED loaded
  BY <1>1 DEF RegisterUndisturbed, proxyVars
<1>6. QED
  BY <1>1, <1>3, <1>4, <1>5, UndisturbedAgrees, RunsLeaveStarts

\* The steps of a run between its upserts: they write no record.
LEMMA SamplingKeepsRegister ==
    ASSUME RegisterInv, NEW r \in Runs,
           OpenCursor(r) \/ SampleDocument(r) \/ FinishSample(r) \/ PersistOk(r) \/ RunFail(r)
    PROVE  RegisterInv' /\ UNCHANGED <<latest, SettledOnes, loaded>>
<1> USE DEF RegisterInv
<1>1. UNCHANGED <<source, metadata, latest, proxyVars, loaded>>
  BY DEF OpenCursor, SampleDocument, FinishSample, PersistOk, RunFail, RunStep, sourceVars,
         proxyVars
<1>2. CASE OpenCursor(r)
  <2>1. PICK c \in names[r] :
            cursor' = [cursor EXCEPT ![r] = [collection |-> c, ids |-> DOMAIN source[c],
                                              documents |-> NoCursor.documents]]
    BY <1>2 DEF OpenCursor
  <2>2. c \in Collections
    BY DEF Typed
  <2>3. DOMAIN source[c] \subseteq Ids
    BY <2>2, HeldIsDocument
  <2>4. run[r] = "next" /\ run' = [run EXCEPT ![r] = "sampling"] /\ UNCHANGED <<names, profile, upsert>>
    BY <1>2 DEF OpenCursor
  <2>5. Typed'
    BY <1>1, <2>1, <2>2, <2>3, <2>4, EmptyIsSample DEF Typed, proxyVars
  <2>6. RunsInOrder'
    BY <2>1, <2>2, <2>4 DEF Typed, InFlight, RunsInOrder
  <2>7. RegisterUndisturbed
    BY <1>1, <2>1, <2>4 DEF Typed, RunsInOrder, InFlight, RegisterUndisturbed
  <2>8. QED
    BY <1>1, <2>5, <2>6, <2>7, UndisturbedAgrees, RunsLeaveStarts
<1>3. CASE SampleDocument(r)
  <2>1. run[r] = "sampling" /\ UNCHANGED <<run, names, profile, upsert>>
    BY <1>3 DEF SampleDocument
  <2>2. PICK d \in DOMAIN source[cursor[r].collection] :
            cursor' = [cursor EXCEPT ![r].documents =
                          [e \in DOMAIN @ \cup {d} |->
                              IF e = d THEN source[cursor[r].collection][d] ELSE @[e]]]
    BY <1>3 DEF SampleDocument
  <2>3. cursor[r].collection \in Collections
    BY <2>1 DEF RunsInOrder
  <2>4. d \in Ids /\ source[cursor[r].collection][d] \in Documents[cursor[r].collection]
    BY <2>2, <2>3, HeldIsDocument
  <2>5. cursor'[r].documents \in Samples
    <3>1. cursor[r].documents \in Samples
      BY DEF Typed
    <3>2. [e \in DOMAIN cursor[r].documents \cup {d} |->
              IF e = d THEN source[cursor[r].collection][d] ELSE cursor[r].documents[e]] \in Samples
      BY <3>1, <2>3, <2>4, SampleGrows
    <3>3. cursor'[r].documents =
             [e \in DOMAIN cursor[r].documents \cup {d} |->
                 IF e = d THEN source[cursor[r].collection][d] ELSE cursor[r].documents[e]]
      <4>1. /\ cursor \in [Runs -> [collection : Collections \cup {""}, ids : SUBSET Ids,
                                     documents : Samples]]
            /\ r \in Runs
        BY DEF Typed
      <4>2. DOMAIN cursor = Runs /\ "documents" \in DOMAIN cursor[r]
        BY <4>1
      <4>3. QED
        BY <2>2, <4>1, <4>2, Zenon
    <3>4. QED
      BY <3>2, <3>3
  <2>6. Typed'
    BY <1>1, <2>1, <2>2, <2>5 DEF Typed, proxyVars
  <2>7. \A q \in Runs : cursor'[q].collection = cursor[q].collection
    BY <2>2 DEF Typed
  <2>8. RunsInOrder' /\ RegisterUndisturbed
    BY <1>1, <2>1, <2>7 DEF InFlight, RunsInOrder, RegisterUndisturbed
  <2>9. QED
    BY <1>1, <2>6, <2>8, UndisturbedAgrees, RunsLeaveStarts
<1>4. CASE FinishSample(r)
  <2>1. /\ run[r] = "sampling" /\ run' = [run EXCEPT ![r] = "persisting"]
        /\ upsert' = [upsert EXCEPT ![r] = "sent"]
        /\ profile' = [profile EXCEPT ![r] = infer(cursor[r].documents)]
        /\ UNCHANGED <<names, cursor>>
    BY <1>4 DEF FinishSample
  <2>2. infer(cursor[r].documents) \in Profiles
    BY DEF Typed, Profiles
  <2>3. Typed'
    BY <1>1, <2>1, <2>2 DEF Typed, proxyVars
  <2>4. RunsInOrder'
    BY <2>1 DEF Typed, InFlight, RunsInOrder
  <2>5. RegisterUndisturbed
    BY <1>1, <2>1 DEF Typed, RunsInOrder, InFlight, RegisterUndisturbed
  <2>6. QED
    BY <1>1, <2>3, <2>4, <2>5, UndisturbedAgrees, RunsLeaveStarts
<1>5. CASE PersistOk(r) \/ RunFail(r)
  \* Either way nothing that is inserting on the server is disturbed.
  <2>1. /\ RunIsActive(r)
        /\ \E place \in {"done", "next", "failed"} :
              /\ run' = [run EXCEPT ![r] = place]
              /\ place = "next" => upsert' = [upsert EXCEPT ![r] = "none"]
        /\ \/ upsert' = upsert
           \/ upsert[r] # "inserting" /\ upsert' = [upsert EXCEPT ![r] = "none"]
        /\ UNCHANGED <<cursor, profile>>
    <3>1. CASE PersistOk(r)
      <4>1. PICK place \in {"done", "next"} : run' = [run EXCEPT ![r] = place]
        BY <3>1 DEF PersistOk
      <4>2. QED
        BY <3>1, <4>1 DEF PersistOk, RunIsActive
    <3>2. CASE RunFail(r)
      BY <3>2 DEF RunFail, RunIsActive
    <3>3. QED
      BY <1>5, <3>1, <3>2
  <2>2. names' \in [Runs -> SUBSET Collections]
    <3>1. CASE PersistOk(r)
      BY <3>1 DEF PersistOk, Typed
    <3>2. CASE RunFail(r)
      BY <3>2 DEF RunFail, Typed
    <3>3. QED
      BY <1>5, <3>1, <3>2
  <2>3. Typed'
    <3>1. run' \in [Runs -> {"idle", "next", "sampling", "persisting", "done", "failed"}]
      BY <2>1 DEF Typed
    <3>2. upsert' \in [Runs -> {"none", "sent", "inserting", "applied"}]
      BY <2>1 DEF Typed
    <3>3. QED
      BY <1>1, <2>1, <2>2, <3>1, <3>2 DEF Typed, proxyVars
  <2>4. RunsInOrder'
    BY <2>1 DEF Typed, RunIsActive, InFlight, RunsInOrder
  <2>5. RegisterUndisturbed
    BY <1>1, <2>1 DEF Typed, RegisterUndisturbed
  <2>6. QED
    BY <1>1, <2>3, <2>4, <2>5, UndisturbedAgrees, RunsLeaveStarts
<1>6. QED
  BY <1>2, <1>3, <1>4, <1>5

\* An upsert that stores its profile may settle its own collection, when it
\* inserted, and leaves the others; it unsettles none.
LEMMA StoreSettles ==
    ASSUME Typed, NEW r \in Runs, NEW id, id[2] = cursor[r].collection, StoreProfile(r, id)
    PROVE  /\ \A e \in Collections \ {cursor[r].collection} : Settled(e)' <=> Settled(e)
           /\ \/ upsert[r] = "inserting"
              \/ upsert[r] = "sent" /\ id \in Records(cursor[r].collection)
              => (Settled(cursor[r].collection) => Settled(cursor[r].collection)')
<1> DEFINE c == cursor[r].collection
<1>1. /\ DOMAIN metadata' = DOMAIN metadata \cup {id}
      /\ upsert' = [upsert EXCEPT ![r] = "applied"]
      /\ UNCHANGED cursor
  BY DEF StoreProfile
<1>2. \A q \in Runs : upsert'[q] = IF q = r THEN "applied" ELSE upsert[q]
  BY <1>1 DEF Typed
<1>3. \A e \in Collections \ {c} : Settled(e)' <=> Settled(e)
  <2>1. SUFFICES ASSUME NEW e \in Collections, e # c
                 PROVE  Settled(e)' <=> Settled(e)
    OBVIOUS
  <2>2. Records(e)' = Records(e)
    BY <1>1, <2>1 DEF Records
  <2>3. (\E i \in DOMAIN metadata' : Records(e)' = {i}) <=> \E i \in DOMAIN metadata : Records(e) = {i}
    BY <2>2 DEF Records
  <2>4. (\A q \in Runs : upsert'[q] = "inserting" => cursor'[q].collection # e)
           <=> \A q \in Runs : upsert[q] = "inserting" => cursor[q].collection # e
    BY <1>1, <1>2, <2>1
  <2>5. QED
    BY <2>3, <2>4 DEF Settled
<1>4. ASSUME upsert[r] = "inserting"
      PROVE  ~Settled(c)
  BY <1>4 DEF Settled
<1>5. ASSUME id \in Records(c), Settled(c)
      PROVE  Settled(c)'
  <2>1. Records(c)' = Records(c) /\ DOMAIN metadata' = DOMAIN metadata
    BY <1>1, <1>5 DEF Records
  <2>2. QED
    BY <1>1, <1>2, <1>5, <2>1 DEF Settled
<1>6. QED
  BY <1>3, <1>4, <1>5

\* What an upsert stores is a record more of its collection, or the one it found:
\* the latest profile wherever the collection is settled afterwards.
LEMMA StoreKeepsRegister ==
    ASSUME RegisterInv, NEW r \in Runs, InFlight(r),
           NEW id, id[2] = cursor[r].collection, StoreProfile(r, id)
    PROVE  RegisterInv'
<1> USE DEF RegisterInv
<1> DEFINE c == cursor[r].collection
<1>1. /\ metadata' = [i \in DOMAIN metadata \cup {id} |-> IF i = id THEN profile[r] ELSE metadata[i]]
      /\ latest' = [latest EXCEPT ![c] = {profile[r]}]
      /\ upsert' = [upsert EXCEPT ![r] = "applied"]
      /\ UNCHANGED <<source, run, names, cursor, profile, proxyVars>>
  BY DEF StoreProfile, RunStep, sourceVars
<1>2. c \in Collections /\ profile[r] \in Profiles
  BY DEF RunsInOrder, Typed
<1>3. Typed'
  <2>1. latest' \in [Collections -> SUBSET Profiles]
    BY <1>1, <1>2 DEF Typed
  <2>2. upsert' \in [Runs -> {"none", "sent", "inserting", "applied"}]
    BY <1>1 DEF Typed
  <2>3. QED
    BY <1>1, <2>1, <2>2 DEF Typed, proxyVars
<1>4. RunsInOrder'
  <2>1. \A q \in Runs : InFlight(q)' => InFlight(q)
    BY <1>1 DEF Typed, InFlight
  <2>2. QED
    BY <1>1, <2>1 DEF Typed, RunsInOrder
<1>5. RecordsAgree'
  <2>1. /\ \A i \in DOMAIN metadata' : i[2] \in Collections /\ metadata'[i] \in Profiles
        /\ id \in Records(c)' /\ metadata'[id] = profile[r]
    BY <1>1, <1>2 DEF RecordsAgree, Records
  <2>2. ASSUME NEW e \in Collections, NEW i \in Records(e)', Settled(e)'
        PROVE  latest'[e] = {metadata'[i]}
    <3>1. CASE e = c
      <4>1. i = id
        BY <1>1, <2>1, <2>2, <3>1 DEF Settled, Records
      <4>2. QED
        BY <1>1, <2>1, <3>1, <4>1 DEF Typed
    <3>2. CASE e # c
      <4>1. i \in Records(e) /\ metadata'[i] = metadata[i] /\ latest'[e] = latest[e]
        BY <1>1, <2>2, <3>2 DEF Records, Typed
      <4>2. Settled(e)
        BY <1>2, <3>2, <2>2, StoreSettles DEF RunsInOrder
      <4>3. QED
        BY <4>1, <4>2 DEF RecordsAgree
    <3>3. QED
      BY <3>1, <3>2
  <2>3. QED
    BY <2>1, <2>2 DEF RecordsAgree
<1>6. QED
  BY <1>1, <1>3, <1>4, <1>5, RunsLeaveStarts

\* An upsert that finds no record is not of a settled collection.
LEMMA MissKeepsRegister ==
    ASSUME RegisterInv, NEW r \in Runs, UpsertMiss(r)
    PROVE  RegisterInv' /\ UNCHANGED <<latest, SettledOnes, loaded>>
<1> USE DEF RegisterInv
<1>1. /\ upsert[r] = "sent" /\ Records(cursor[r].collection) = {}
      /\ upsert' = [upsert EXCEPT ![r] = "inserting"]
      /\ UNCHANGED <<source, metadata, run, names, cursor, profile, latest, proxyVars, loaded>>
  BY DEF UpsertMiss, RunStep, sourceVars, proxyVars
<1>2. Typed'
  BY <1>1 DEF Typed, proxyVars
<1>3. RunsInOrder'
  BY <1>1 DEF Typed, RunsInOrder, InFlight
<1>4. \A e \in Collections : Records(e)' = Records(e) /\ (Settled(e)' <=> Settled(e))
  <2>1. \A e \in Collections : Records(e)' = Records(e)
    BY <1>1 DEF Records
  <2>2. ~Settled(cursor[r].collection) /\ ~Settled(cursor[r].collection)'
    BY <1>1 DEF Settled, Records
  <2>3. \A e \in Collections \ {cursor[r].collection} : Settled(e)' <=> Settled(e)
    BY <1>1 DEF Settled, Records, Typed
  <2>4. QED
    BY <1>1, <2>1, <2>2, <2>3
<1>5. RecordsAgree'
  BY <1>1, <1>4 DEF RecordsAgree
<1>6. QED
  BY <1>1, <1>2, <1>3, <1>4, <1>5, RunsLeaveStarts DEF SettledOnes

\* A proxy loads what agrees with the register, and starts from nothing.
LEMMA ProxiesKeepRegister ==
    ASSUME RegisterInv, NEW p \in Proxies, ProxyNext(p)
    PROVE  RegisterInv' /\ UNCHANGED <<latest, SettledOnes>>
<1> USE DEF RegisterInv
<1>1. UNCHANGED <<sourceVars, runVars>>
  BY DEF ProxyNext, StartProxy, LoadProfile, LoadMissing, LoadFail, StopProxy, ProxyStep
<1>2. RunsInOrder' /\ RecordsAgree' /\ UNCHANGED <<latest, SettledOnes>>
  <2>1. RunsInOrder' /\ RegisterUndisturbed
    BY <1>1 DEF runVars, InFlight, RunsInOrder, RegisterUndisturbed
  <2>2. QED
    BY <2>1, UndisturbedAgrees
<1> DEFINE Started == /\ wanted' \in [Proxies -> SUBSET Collections]
                      /\ proxy' \in [Proxies -> {"down", "loading", "serving", "refused"}]
                      /\ loaded' \in [Proxies -> Loads]
                      /\ StartsAreFresh'
<1>3. Started
  <2>1. CASE \E environment \in Environments : StartProxy(p, environment)
    <3>1. PICK environment \in Environments : StartProxy(p, environment)
      BY <2>1
    <3>2. UNCHANGED loaded /\ proxy[p] = "down"
      BY <3>1 DEF StartProxy
    <3>3. CASE UNCHANGED wanted /\ proxy' = [proxy EXCEPT ![p] = "refused"]
      BY <3>2, <3>3 DEF Typed, StartsAreFresh
    <3>4. CASE \E configured \in parse_configured_collections(environment) :
                  /\ proxy' = [proxy EXCEPT ![p] = "loading"]
                  /\ wanted' = [wanted EXCEPT ![p] = configured]
      <4>1. PICK configured \in parse_configured_collections(environment) :
                  /\ proxy' = [proxy EXCEPT ![p] = "loading"]
                  /\ wanted' = [wanted EXCEPT ![p] = configured]
        BY <3>4
      <4>2. configured \subseteq Collections
        BY ConfiguredIsGiven
      <4>3. DOMAIN loaded[p] = {}
        BY <3>2 DEF StartsAreFresh
      <4>4. QED
        BY <3>2, <4>1, <4>2, <4>3 DEF Typed, StartsAreFresh
    <3>5. QED
      BY <3>1, <3>3, <3>4 DEF StartProxy
  <2>2. CASE LoadProfile(p)
    <3>0. PICK c \in wanted[p] :
              /\ \E id \in Records(c) :
                    loaded' = [loaded EXCEPT ![p] =
                        [e \in DOMAIN @ \cup {c} |-> IF e = c THEN metadata[id] ELSE @[e]]]
              /\ wanted' = [wanted EXCEPT ![p] = @ \ {c}]
              /\ proxy' = [proxy EXCEPT ![p] = IF wanted[p] = {c} THEN "serving" ELSE "loading"]
      BY <2>2, Zenon DEF LoadProfile
    <3>1. PICK id \in Records(c) :
              loaded' = [loaded EXCEPT ![p] =
                  [e \in DOMAIN @ \cup {c} |-> IF e = c THEN metadata[id] ELSE @[e]]]
      BY <3>0
    <3>2. c \in Collections /\ id \in DOMAIN metadata /\ proxy[p] = "loading"
      BY <2>2 DEF Typed, Records, LoadProfile
    <3>3. metadata[id] \in Profiles /\ loaded[p] \in Loads
      BY <3>2 DEF Typed, RecordsAgree
    <3>4. loaded'[p] = [e \in DOMAIN loaded[p] \cup {c} |->
                            IF e = c THEN metadata[id] ELSE loaded[p][e]]
      BY <3>1, DOMAIN loaded = Proxies DEF Typed
    <3>5. loaded' \in [Proxies -> Loads]
      <4>1. loaded'[p] \in Loads
        BY <3>2, <3>3, <3>4, LoadGrows
      <4>2. loaded' = [q \in Proxies |-> IF q = p THEN loaded'[p] ELSE loaded[q]]
        BY <3>1, <3>4 DEF Typed
      <4>3. QED
        BY <4>1, <4>2 DEF Typed
    <3>6. /\ wanted' \in [Proxies -> SUBSET Collections]
          /\ proxy' \in [Proxies -> {"down", "loading", "serving", "refused"}]
      BY <3>0 DEF Typed
    <3>7. StartsAreFresh'
      <4>1. \A q \in Proxies \ {p} : /\ loaded'[q] = loaded[q] /\ wanted'[q] = wanted[q]
                                     /\ proxy'[q] = proxy[q]
        BY <3>0, <3>1 DEF Typed
      <4>2. proxy'[p] # "down" /\ wanted'[p] = wanted[p] \ {c}
        BY <3>0 DEF Typed
      <4>3. DOMAIN loaded'[p] = DOMAIN loaded[p] \cup {c}
        BY <3>4
      <4>4. wanted'[p] \cap DOMAIN loaded'[p] = {}
        BY <3>2, <4>2, <4>3 DEF StartsAreFresh
      <4>5. QED
        BY <4>1, <4>2, <4>4 DEF StartsAreFresh
    <3>8. QED
      BY <3>5, <3>6, <3>7
  <2>3. CASE LoadMissing(p) \/ LoadFail(p)
    BY <2>3 DEF LoadMissing, LoadFail, Typed, StartsAreFresh
  <2>4. CASE StopProxy(p)
    BY <2>4, NothingIsLoad DEF StopProxy, Typed, StartsAreFresh
  <2>5. QED
    BY <2>1, <2>2, <2>3, <2>4 DEF ProxyNext
<1>4. Typed'
  BY <1>1, <1>3 DEF Typed, sourceVars, runVars
<1>5. QED
  BY <1>2, <1>3, <1>4

\* A stored profile is published, whether it replaced a record or was inserted.
LEMMA StorePublishes ==
    ASSUME RegisterInv, NEW r \in Runs, UpsertReplace(r) \/ UpsertInsert(r)
    PROVE  RegisterInv' /\ Register!Next
<1>1. PICK id : /\ StoreProfile(r, id) /\ id[2] = cursor[r].collection /\ InFlight(r)
                /\ \/ upsert[r] = "inserting"
                   \/ upsert[r] = "sent" /\ id \in Records(cursor[r].collection)
  <2>1. CASE UpsertReplace(r)
    BY <2>1 DEF UpsertReplace, Records, InFlight
  <2>2. CASE UpsertInsert(r)
    BY <2>2 DEF UpsertInsert, InFlight
  <2>3. QED
    BY <2>1, <2>2
<1>2. RegisterInv'
  BY <1>1, StoreKeepsRegister
<1>3. cursor[r].collection \in Collections /\ profile[r] \in Profiles
  BY <1>1 DEF RegisterInv, RunsInOrder, Typed
<1>4. SettledOnes' \in {SettledOnes, SettledOnes \cup {cursor[r].collection}}
  <2>1. /\ \A e \in Collections \ {cursor[r].collection} : Settled(e)' <=> Settled(e)
        /\ Settled(cursor[r].collection) => Settled(cursor[r].collection)'
    BY <1>1, StoreSettles DEF RegisterInv
  <2>2. UNCHANGED cursor
    BY <1>1 DEF StoreProfile
  <2>3. QED
    BY <1>3, <2>1, <2>2 DEF SettledOnes
<1>5. Register!Publish(cursor[r].collection)
  BY <1>1, <1>3, <1>4 DEF StoreProfile, RunStep, proxyVars, SettledOnes, Register!Publish
<1>6. QED
  BY <1>2, <1>3, <1>5 DEF Register!Next

\* A start takes what the register holds, or any profile of a collection that is
\* not settled.
LEMMA LoadTakesLatest ==
    ASSUME RegisterInv, NEW p \in Proxies, LoadProfile(p)
    PROVE  Register!Next
<1>1. PICK c \in wanted[p] :
          \E id \in Records(c) :
              loaded' = [loaded EXCEPT ![p] =
                  [e \in DOMAIN @ \cup {c} |-> IF e = c THEN metadata[id] ELSE @[e]]]
  BY Zenon DEF LoadProfile
<1>2. PICK id \in Records(c) :
          loaded' = [loaded EXCEPT ![p] =
              [e \in DOMAIN @ \cup {c} |-> IF e = c THEN metadata[id] ELSE @[e]]]
  BY <1>1
<1>3. c \in Collections /\ c \notin DOMAIN loaded[p]
  BY DEF RegisterInv, Typed, StartsAreFresh, LoadProfile
<1>4. metadata[id] \in IF c \in SettledOnes THEN latest[c] ELSE Profiles
  BY <1>2, <1>3 DEF RegisterInv, RecordsAgree, Records, SettledOnes
<1>5. UNCHANGED <<latest, SettledOnes>>
  BY ProxiesKeepRegister DEF ProxyNext
<1>6. Register!Load(p, c)
  BY <1>2, <1>3, <1>4, <1>5 DEF SettledOnes, Register!Load
<1>7. QED
  BY <1>3, <1>6 DEF Register!Next

-----------------------------------------------------------------------------
(* The refinement *)

LEMMA RegisterInit == Init => Register!Init
BY DEF Init, Settled, Register!Init, Register!NothingLoaded

\* Every step of discovery and of the proxies keeps the invariant, and is a step of
\* the register or none.
LEMMA RegisterStep ==
    ASSUME RegisterInv, [Next]_vars
    PROVE  RegisterInv' /\ (Register!Next \/ UNCHANGED <<latest, SettledOnes, loaded>>)
<1>1. CASE SourceNext
  BY <1>1, ChangesKeepRegister
<1>2. ASSUME NEW r \in Runs, RunNext(r)
      PROVE  RegisterInv' /\ (Register!Next \/ UNCHANGED <<latest, SettledOnes, loaded>>)
  BY <1>2, BeginKeepsRegister, SamplingKeepsRegister, MissKeepsRegister, StorePublishes DEF RunNext
<1>3. ASSUME NEW p \in Proxies, ProxyNext(p)
      PROVE  RegisterInv' /\ (Register!Next \/ UNCHANGED <<latest, SettledOnes, loaded>>)
  <2>1. RegisterInv' /\ UNCHANGED <<latest, SettledOnes>>
    BY <1>3, ProxiesKeepRegister
  <2>2. CASE LoadProfile(p)
    BY <2>1, <2>2, LoadTakesLatest
  <2>3. CASE StopProxy(p)
    <3>1. Register!Stop(p)
      BY <2>1, <2>3 DEF StopProxy, SettledOnes, Register!Stop, Register!NothingLoaded
    <3>2. QED
      BY <2>1, <3>1 DEF Register!Next
  <2>4. CASE \/ \E environment \in Environments : StartProxy(p, environment)
             \/ LoadMissing(p) \/ LoadFail(p)
    <3>1. UNCHANGED loaded
      BY <2>4 DEF StartProxy, LoadMissing, LoadFail
    <3>2. QED
      BY <2>1, <3>1
  <2>5. QED
    BY <1>3, <2>2, <2>3, <2>4 DEF ProxyNext
<1>4. CASE UNCHANGED vars
  <2>1. RegisterUndisturbed /\ UNCHANGED loaded
    BY <1>4 DEF vars, runVars, proxyVars, RegisterUndisturbed
  <2>2. Typed' /\ RunsInOrder' /\ StartsAreFresh'
    BY <1>4 DEF vars, sourceVars, runVars, proxyVars, RegisterInv, Typed, InFlight, RunsInOrder,
                StartsAreFresh
  <2>3. QED
    BY <2>1, <2>2, UndisturbedAgrees DEF RegisterInv
<1>5. QED
  BY <1>1, <1>2, <1>3, <1>4 DEF Next

\* Whatever discovery runs overlap, fail or are killed with an upsert on the server,
\* each collection is one register from the moment it has one record and no upsert
\* that found none has yet to insert a second: a start of a proxy then takes the
\* profile that the server applied last (load_persisted_profile).
THEOREM DiscoveryKeepsRegister == Spec => KeepsRegister
<1>1. RegisterInv /\ [Next]_vars
        => RegisterInv' /\ [Register!Next]_<<latest, {c \in Collections : Settled(c)}, loaded>>
  BY RegisterStep DEF SettledOnes
<1>2. QED
  BY <1>1, RegisterInit, RegisterInitially, PTL DEF Spec, KeepsRegister, Register!Spec

-----------------------------------------------------------------------------
(* 3. What profiles say of their collections, for runs that may overlap *)

\* The types besides those of ProgressTyped.
SampledTyped ==
    /\ DOMAIN source = Collections /\ DOMAIN held = Collections
    /\ \A c \in Collections : source[c] \in Contents(c)
    /\ DOMAIN metadata \subseteq Runs \X Collections
    /\ \A id \in DOMAIN metadata : metadata[id] \in Profiles
    /\ cursor \in [Runs -> [collection : Collections \cup {""}, ids : SUBSET Ids,
                            documents : Samples]]
    /\ profile \in [Runs -> Profiles]
    /\ loaded \in [Proxies -> Loads]
    /\ latest \in [Collections -> SUBSET Profiles]
    /\ changes \in 0 .. MaxChanges
    /\ stops \in 0 .. MaxStops

HeldIsKept == \A c \in Collections : \A d \in DOMAIN source[c] : source[c][d] \in held[c]

\* A sample is of its own collection, and as it is there when nothing changes.
SampleIsHeld(r) ==
    LET c == cursor[r].collection
        sample == cursor[r].documents
    IN  /\ \A d \in DOMAIN sample : sample[d] \in held[c]
        /\ Cardinality(DOMAIN sample) =< SampleSize
        /\ changes = 0 =>
              /\ cursor[r].ids = DOMAIN source[c]
              /\ \A d \in DOMAIN sample : d \in DOMAIN source[c] /\ sample[d] = source[c][d]

IsKnown(c, fields) ==
    changes = 0 /\ Cardinality(DOMAIN source[c]) =< SampleSize => fields = infer(source[c])

\* What a run has sampled and what its upsert would store.
Sampling(r) ==
    /\ run[r] = "sampling" => SampleIsHeld(r)
    /\ InFlight(r) => /\ IsObserved(cursor[r].collection, profile[r])
                      /\ IsKnown(cursor[r].collection, profile[r])

SampledInv ==
    /\ SampledTyped
    /\ HeldIsKept
    /\ \A r \in Runs : Sampling(r)
    /\ ProfilesAreObserved
    /\ SmallCollectionsKnown

LEMMA SampledInitially == Init => SampledInv
<1>1. SUFFICES ASSUME Init PROVE SampledInv
  OBVIOUS
<1>2. SampledTyped
  <2>1. infer(NoCursor.documents) \in Profiles
    BY EmptyIsSample DEF Profiles
  <2>2. NoCursor \in [collection : Collections \cup {""}, ids : SUBSET Ids, documents : Samples]
    BY EmptyIsSample DEF NoCursor
  <2>3. changes \in 0 .. MaxChanges /\ stops \in 0 .. MaxStops
    BY <1>1, BoundsAssumption DEF Init
  <2>4. QED
    BY <1>1, <2>1, <2>2, <2>3, NothingIsLoad DEF Init, SampledTyped
<1>3. HeldIsKept
  BY <1>1 DEF Init, HeldIsKept
<1>4. (\A r \in Runs : Sampling(r)) /\ ProfilesAreObserved /\ SmallCollectionsKnown
  BY <1>1 DEF Init, Sampling, InFlight, ProfilesAreObserved, SmallCollectionsKnown
<1>5. QED
  BY <1>2, <1>3, <1>4 DEF SampledInv

\* A profile says what the sampled documents hold, and counts no more of them.
LEMMA InferredIsObserved ==
    ASSUME NEW documents, NEW c, IsFiniteSet(DOMAIN documents),
           Cardinality(DOMAIN documents) =< SampleSize,
           \A d \in DOMAIN documents : documents[d] \in held[c]
    PROVE  IsObserved(c, infer(documents))
<1> DEFINE fields == infer(documents)
<1>1. SUFFICES ASSUME NEW path \in DOMAIN fields
               PROVE  /\ fields[path].observed_types # {}
                      /\ \A type \in fields[path].observed_types :
                            \E document \in held[c] :
                                path \in DOMAIN document /\ document[path].type = type
                      /\ fields[path].present_documents >= 1
                      /\ fields[path].present_documents + fields[path].missing_documents
                            =< SampleSize
  BY DEF IsObserved
<1> DEFINE ids == DOMAIN documents
           holders == {d \in ids : path \in DOMAIN documents[d]}
           values == {documents[d][path] : d \in holders}
<1>2. /\ fields[path].present_documents = Cardinality(holders)
      /\ fields[path].missing_documents = Cardinality(ids) - Cardinality(holders)
      /\ fields[path].observed_types = {v.type : v \in values}
      /\ holders # {}
  BY DEF infer
<1>3. \A type \in fields[path].observed_types :
          \E document \in held[c] : path \in DOMAIN document /\ document[path].type = type
  BY <1>2
<1>4. fields[path].observed_types # {}
  BY <1>2
<1>5. IsFiniteSet(holders) /\ Cardinality(holders) # 0
  BY <1>2, FS_Subset, FS_EmptySet
<1>6. Cardinality(holders) \in Nat /\ Cardinality(ids) \in Nat
  BY <1>5, FS_CardinalityType
<1> HIDE DEF holders, fields
<1>7. QED
  BY <1>2, <1>3, <1>4, <1>5, <1>6, SampleSizeAssumption

\* What was observed stays observed, for a collection forgets nothing.
LEMMA ObservedStays ==
    ASSUME NEW c, NEW fields, IsObserved(c, fields), held[c] \subseteq held'[c]
    PROVE  IsObserved(c, fields)'
BY DEF IsObserved

\* What a run samples and what it stores is of one of the collections.
LEMMA SampledCollection ==
    ASSUME ProgressInv, NEW r \in Runs, run[r] = "sampling" \/ InFlight(r)
    PROVE  cursor[r].collection \in names[r] /\ names[r] \subseteq Collections
<1>1. Progress(r) /\ names[r] \subseteq Collections
  BY DEF ProgressInv, RunInv, ProgressTyped
<1>2. QED
  BY <1>1 DEF Progress, IsFirst

LEMMA LoadedCollections ==
    ASSUME SampledTyped, NEW p \in Proxies
    PROVE  DOMAIN loaded[p] \subseteq Collections
<1>1. loaded[p] \in Loads
  BY DEF SampledTyped
<1>2. PICK some \in SUBSET Collections : loaded[p] \in [some -> Profiles]
  BY <1>1 DEF Loads
<1>3. QED
  BY <1>2

\* A change adds what it stores to the history, and afterwards something has changed.
LEMMA ChangesKeepSamples ==
    ASSUME SampledInv, ProgressInv, SourceNext
    PROVE  SampledInv'
<1> USE DEF SampledInv
<1>1. PICK c \in Collections, d \in Ids :
          \/ \E document \in Documents[c] : StoreDocument(c, d, document)
          \/ RemoveDocument(c, d)
  BY DEF SourceNext
<1>2. \E content \in Contents(c) : Change(c, content)
  <2>1. PICK present \in SUBSET Ids : source[c] \in [present -> Documents[c]]
    BY DEF SampledTyped, Contents
  <2>2. CASE \E document \in Documents[c] : StoreDocument(c, d, document)
    <3>1. PICK document \in Documents[c] : StoreDocument(c, d, document)
      BY <2>2
    <3>2. [e \in DOMAIN source[c] \cup {d} |-> IF e = d THEN document ELSE source[c][e]]
             \in [present \cup {d} -> Documents[c]]
      BY <2>1
    <3>3. present \cup {d} \in SUBSET Ids
      OBVIOUS
    <3>4. QED
      BY <3>1, <3>2, <3>3 DEF StoreDocument, Contents
  <2>3. CASE RemoveDocument(c, d)
    <3>1. [e \in DOMAIN source[c] \ {d} |-> source[c][e]] \in [present \ {d} -> Documents[c]]
      BY <2>1
    <3>2. present \ {d} \in SUBSET Ids
      OBVIOUS
    <3>3. QED
      BY <2>3, <3>1, <3>2 DEF RemoveDocument, Contents
  <2>4. QED
    BY <1>1, <2>2, <2>3
<1>3. PICK content \in Contents(c) : Change(c, content)
  BY <1>2
<1>4. /\ source' = [source EXCEPT ![c] = content]
      /\ held' = [held EXCEPT ![c] = @ \cup {content[e] : e \in DOMAIN content}]
      /\ changes < MaxChanges /\ changes' = changes + 1
      /\ UNCHANGED <<metadata, run, cursor, profile, upsert, latest, loaded, stops>>
  BY <1>3 DEF Change, runVars, proxyVars
<1>5. \A e \in Collections : held[e] \subseteq held'[e]
  BY <1>4 DEF SampledTyped
<1>6. changes' \in 0 .. MaxChanges /\ changes' # 0
  <2>1. changes \in 0 .. MaxChanges
    BY DEF SampledTyped
  <2>2. QED
    BY <1>4, <2>1, BoundsAssumption
<1>7. SampledTyped'
  BY <1>4, <1>6 DEF SampledTyped
<1>8. HeldIsKept'
  <2>1. SUFFICES ASSUME NEW e \in Collections, NEW x \in DOMAIN source'[e]
                 PROVE  source'[e][x] \in held'[e]
    BY DEF HeldIsKept
  <2>2. CASE e = c
    BY <1>4, <2>2 DEF SampledTyped
  <2>3. CASE e # c
    BY <1>4, <2>1, <2>3 DEF SampledTyped, HeldIsKept
  <2>4. QED
    BY <2>2, <2>3
<1>9. ASSUME NEW r \in Runs PROVE Sampling(r)'
  <2>1. run[r] = "sampling" \/ InFlight(r) => cursor[r].collection \in Collections
    BY SampledCollection
  <2>2. run[r] = "sampling" => SampleIsHeld(r)'
    BY <1>4, <1>5, <1>6, <2>1 DEF Sampling, SampleIsHeld
  <2>3. InFlight(r) => IsObserved(cursor[r].collection, profile[r])'
    <3>1. InFlight(r) => IsObserved(cursor[r].collection, profile[r])
      BY DEF Sampling
    <3>2. \A e \in Collections : \A fields : IsObserved(e, fields) =>
             \A other : other = fields => IsObserved(e, other)'
      BY <1>5, ObservedStays
    <3>3. QED
      BY <1>4, <2>1, <3>1, <3>2 DEF IsObserved
  <2>4. QED
    BY <1>4, <1>6, <2>2, <2>3 DEF Sampling, InFlight, IsKnown, IsObserved
<1>10. ProfilesAreObserved'
  <2>1. \A id \in DOMAIN metadata : id[2] \in Collections
    BY DEF SampledTyped
  <2>2. \A p \in Proxies : DOMAIN loaded[p] \subseteq Collections
    BY LoadedCollections
  <2>3. \A e \in Collections : \A fields : IsObserved(e, fields) => IsObserved(e, fields)'
    BY <1>5, ObservedStays
  <2>4. \A id \in DOMAIN metadata' : IsObserved(id[2], metadata[id])'
    BY <1>4, <2>1, <2>3 DEF ProfilesAreObserved
  <2>5. \A p \in Proxies : \A e \in DOMAIN loaded'[p] : IsObserved(e, loaded[p][e])'
    BY <1>4, <2>2, <2>3 DEF ProfilesAreObserved
  <2>6. QED
    BY <1>4, <2>4, <2>5 DEF ProfilesAreObserved, IsObserved
<1>11. SmallCollectionsKnown'
  BY <1>6 DEF SmallCollectionsKnown
<1>12. QED
  BY <1>7, <1>8, <1>9, <1>10, <1>11

\* What neither changes a collection nor stores a profile leaves the rest to each run.
LEMMA RunFrame ==
    ASSUME SampledInv, UNCHANGED <<sourceVars, proxyVars, metadata, latest>>,
           SampledTyped', \A r \in Runs : Sampling(r)'
    PROVE  SampledInv'
<1>1. HeldIsKept' /\ ProfilesAreObserved' /\ SmallCollectionsKnown'
  BY DEF SampledInv, sourceVars, proxyVars, HeldIsKept, ProfilesAreObserved, IsObserved,
         SmallCollectionsKnown
<1>2. QED
  BY <1>1 DEF SampledInv

LEMMA SamplingFrame ==
    ASSUME NEW q \in Runs, Sampling(q), UNCHANGED sourceVars,
           cursor'[q] = cursor[q], profile'[q] = profile[q],
           run'[q] = "sampling" => run[q] = "sampling",
           InFlight(q)' => InFlight(q)
    PROVE  Sampling(q)'
BY DEF Sampling, SampleIsHeld, IsKnown, IsObserved, sourceVars

\* A run that begins, is acknowledged or fails samples nothing, nor does an upsert
\* that finds no record.
LEMMA OtherStepsKeepSamples ==
    ASSUME SampledInv, ProgressInv, NEW r \in Runs,
           \/ \E environment \in Environments : BeginRun(r, environment)
           \/ PersistOk(r) \/ RunFail(r) \/ UpsertMiss(r)
    PROVE  SampledInv'
<1>1. UNCHANGED <<sourceVars, proxyVars, metadata, latest, cursor, profile>>
  BY DEF BeginRun, PersistOk, RunFail, UpsertMiss, RunStep
<1>2. SampledTyped'
  BY <1>1 DEF SampledInv, SampledTyped, sourceVars, proxyVars
<1>3. \A q \in Runs :
          /\ run'[q] = "sampling" => run[q] = "sampling"
          /\ InFlight(q)' => InFlight(q)
  <2>0. DOMAIN run = Runs /\ DOMAIN upsert = Runs
    BY DEF ProgressInv, RunInv, ProgressTyped
  <2>1. CASE \E environment \in Environments : BeginRun(r, environment)
    BY <2>0, <2>1 DEF BeginRun, InFlight
  <2>2. CASE PersistOk(r)
    <3>1. /\ upsert' = [upsert EXCEPT ![r] = "none"]
          /\ \E place \in {"done", "next"} : run' = [run EXCEPT ![r] = place]
      BY <2>2 DEF PersistOk
    <3>2. QED
      BY <2>0, <3>1 DEF InFlight
  <2>3. CASE RunFail(r)
    BY <2>0, <2>3 DEF RunFail, InFlight
  <2>4. CASE UpsertMiss(r)
    BY <2>0, <2>4 DEF UpsertMiss, InFlight
  <2>5. QED
    BY <2>1, <2>2, <2>3, <2>4
<1>4. QED
  BY <1>1, <1>2, <1>3, RunFrame, SamplingFrame DEF SampledInv

LEMMA OpenCursorKeepsSamples ==
    ASSUME SampledInv, ProgressInv, NEW r \in Runs, OpenCursor(r)
    PROVE  SampledInv'
<1>1. PICK c \in names[r] :
          cursor' = [cursor EXCEPT ![r] = [collection |-> c, ids |-> DOMAIN source[c],
                                            documents |-> NoCursor.documents]]
  BY DEF OpenCursor
<1>2. /\ UNCHANGED <<sourceVars, proxyVars, metadata, latest, profile, upsert>>
      /\ run[r] = "next" /\ run' = [run EXCEPT ![r] = "sampling"]
  BY DEF OpenCursor, RunStep
<1>3. DOMAIN run = Runs /\ DOMAIN upsert = Runs /\ names[r] \subseteq Collections
  BY DEF ProgressInv, RunInv, ProgressTyped
<1>4. DOMAIN source[c] \subseteq Ids
  <2>1. source[c] \in Contents(c)
    BY <1>3 DEF SampledInv, SampledTyped
  <2>2. QED
    BY <2>1 DEF Contents
<1>5. [collection |-> c, ids |-> DOMAIN source[c], documents |-> NoCursor.documents]
         \in [collection : Collections \cup {""}, ids : SUBSET Ids, documents : Samples]
  BY <1>3, <1>4, EmptyIsSample
<1>6. SampledTyped'
  BY <1>1, <1>2, <1>5 DEF SampledInv, SampledTyped, sourceVars, proxyVars
<1>7. ASSUME NEW q \in Runs PROVE Sampling(q)'
  <2>1. CASE q # r
    BY <1>1, <1>2, <1>3, <2>1, SamplingFrame DEF SampledInv, SampledTyped, InFlight
  <2>2. CASE q = r
    <3>1. ~InFlight(r)'
      BY <1>2 DEF ProgressInv, RunInv, Progress, InFlight
    <3>2. /\ cursor'[r].collection = c /\ cursor'[r].ids = DOMAIN source[c]
          /\ cursor'[r].documents = NoCursor.documents
      BY <1>1 DEF SampledInv, SampledTyped
    <3>3. DOMAIN NoCursor.documents = {} /\ Cardinality({}) = 0
      BY FS_EmptySet DEF NoCursor
    <3>4. SampleIsHeld(r)'
      BY <1>2, <3>2, <3>3, SampleSizeAssumption DEF SampleIsHeld, sourceVars
    <3>5. QED
      BY <2>2, <3>1, <3>4 DEF Sampling
  <2>3. QED
    BY <2>1, <2>2
<1>8. QED
  BY <1>2, <1>6, <1>7, RunFrame

\* A sample has finitely many documents, of ids that there are.
LEMMA SampleIsFinite ==
    ASSUME SampledTyped, NEW r \in Runs
    PROVE  Sampled(r) \subseteq Ids /\ IsFiniteSet(Sampled(r)) /\ Cardinality(Sampled(r)) \in Nat
<1>1. cursor[r].documents \in Samples
  BY DEF SampledTyped
<1>2. Sampled(r) \subseteq Ids
  BY <1>1 DEF Samples, Sampled
<1>3. QED
  BY <1>2, CollectionsAssumption, FS_Subset, FS_CardinalityType

LEMMA SampleDocumentKeepsSamples ==
    ASSUME SampledInv, ProgressInv, NEW r \in Runs, SampleDocument(r)
    PROVE  SampledInv'
<1> DEFINE c == cursor[r].collection
           sample == cursor[r].documents
<1>1. PICK d \in DOMAIN source[c] \ Sampled(r) :
          cursor' = [cursor EXCEPT ![r].documents =
                        [e \in DOMAIN @ \cup {d} |-> IF e = d THEN source[c][d] ELSE @[e]]]
  BY Zenon DEF SampleDocument
<1>2. /\ UNCHANGED <<sourceVars, proxyVars, metadata, latest, run, profile, upsert>>
      /\ run[r] = "sampling" /\ Cardinality(Sampled(r)) < SampleSize
  BY DEF SampleDocument, RunStep
<1>3. c \in Collections
  BY <1>2, SampledCollection
<1> DEFINE larger == [e \in DOMAIN sample \cup {d} |-> IF e = d THEN source[c][d] ELSE sample[e]]
<1>4. d \in Ids /\ source[c][d] \in Documents[c]
  <2>1. source[c] \in Contents(c)
    BY <1>3 DEF SampledInv, SampledTyped
  <2>2. QED
    BY <2>1 DEF Contents
<1>5. larger \in Samples
  <2>1. sample \in Samples
    BY DEF SampledInv, SampledTyped
  <2>2. QED
    BY <1>3, <1>4, <2>1, SampleGrows
<1>6. /\ \A q \in Runs \ {r} : cursor'[q] = cursor[q]
      /\ cursor'[r] = [cursor[r] EXCEPT !.documents = larger]
      /\ DOMAIN cursor' = Runs
  BY <1>1 DEF SampledInv, SampledTyped
<1>7. /\ cursor'[r].collection = c /\ cursor'[r].ids = cursor[r].ids
      /\ cursor'[r].documents = larger
  <2> HIDE DEF larger
  <2>1. cursor[r] \in [collection : Collections \cup {""}, ids : SUBSET Ids, documents : Samples]
    BY DEF SampledInv, SampledTyped
  <2>2. QED
    BY <1>6, <2>1
<1> HIDE DEF larger
<1>8. SampledTyped'
  <2>1. cursor'[r] \in [collection : Collections \cup {""}, ids : SUBSET Ids, documents : Samples]
    BY <1>5, <1>6 DEF SampledInv, SampledTyped
  <2>2. cursor' = [q \in Runs |-> IF q = r THEN cursor'[r] ELSE cursor[q]]
    BY <1>1, <1>6 DEF SampledInv, SampledTyped
  <2>3. cursor' \in [Runs -> [collection : Collections \cup {""}, ids : SUBSET Ids,
                              documents : Samples]]
    BY <2>1, <2>2 DEF SampledInv, SampledTyped
  <2>4. QED
    BY <1>2, <2>3 DEF SampledInv, SampledTyped, sourceVars, proxyVars
<1>9. SampleIsHeld(r)'
  <2>1. SampleIsHeld(r) /\ HeldIsKept
    BY <1>2 DEF SampledInv, Sampling
  <2>2. DOMAIN larger = Sampled(r) \cup {d} /\ d \notin Sampled(r)
    BY DEF larger, Sampled
  <2>3. Cardinality(DOMAIN larger) = Cardinality(Sampled(r)) + 1
    BY <2>2, SampleIsFinite, FS_AddElement DEF SampledInv
  <2>4. Cardinality(DOMAIN larger) =< SampleSize
    BY <1>2, <2>3, SampleIsFinite, SampleSizeAssumption DEF SampledInv
  <2>5. /\ larger[d] = source[c][d]
        /\ \A e \in DOMAIN larger \ {d} : e \in DOMAIN sample /\ larger[e] = sample[e]
    BY DEF larger
  <2>6. \A e \in DOMAIN larger : larger[e] \in held[c]
    BY <1>3, <2>1, <2>5 DEF SampleIsHeld, HeldIsKept
  <2>7. changes = 0 => \A e \in DOMAIN larger : e \in DOMAIN source[c] /\ larger[e] = source[c][e]
    BY <2>1, <2>5 DEF SampleIsHeld
  <2>8. QED
    BY <1>2, <1>7, <2>1, <2>4, <2>6, <2>7 DEF SampleIsHeld, sourceVars
<1>10. ASSUME NEW q \in Runs PROVE Sampling(q)'
  <2>1. CASE q # r
    BY <1>2, <1>6, <2>1, SamplingFrame DEF SampledInv, InFlight
  <2>2. CASE q = r
    <3>1. ~InFlight(r)'
      BY <1>2 DEF ProgressInv, RunInv, Progress, InFlight
    <3>2. QED
      BY <1>9, <2>2, <3>1 DEF Sampling
  <2>3. QED
    BY <2>1, <2>2
<1>11. QED
  BY <1>2, <1>8, <1>10, RunFrame

\* The profile that is sent says what the sample holds; nothing was missed when
\* nothing changed and the collection is small.
LEMMA FinishSampleKeepsSamples ==
    ASSUME SampledInv, ProgressInv, NEW r \in Runs, FinishSample(r)
    PROVE  SampledInv'
<1> DEFINE c == cursor[r].collection
           sample == cursor[r].documents
<1>1. /\ UNCHANGED <<sourceVars, proxyVars, metadata, latest, cursor>>
      /\ run[r] = "sampling" /\ run' = [run EXCEPT ![r] = "persisting"]
      /\ upsert' = [upsert EXCEPT ![r] = "sent"]
      /\ profile' = [profile EXCEPT ![r] = infer(sample)]
      /\ \/ Cardinality(Sampled(r)) = SampleSize
         \/ cursor[r].ids \cap DOMAIN source[c] \subseteq Sampled(r)
  BY DEF FinishSample, RunStep
<1>2. DOMAIN run = Runs /\ DOMAIN upsert = Runs
  BY DEF ProgressInv, RunInv, ProgressTyped
<1>3. SampledTyped /\ SampleIsHeld(r) /\ c \in Collections
  BY <1>1, SampledCollection DEF SampledInv, Sampling
<1>4. sample \in Samples /\ infer(sample) \in Profiles
  BY <1>3 DEF SampledTyped, Profiles
<1>5. SampledTyped'
  BY <1>1, <1>3, <1>4 DEF SampledTyped, sourceVars, proxyVars
<1>6. IsObserved(c, infer(sample))
  BY <1>3, SampleIsFinite, InferredIsObserved DEF SampleIsHeld, Sampled
<1>7. IsKnown(c, infer(sample))
  <2>1. SUFFICES ASSUME changes = 0, Cardinality(DOMAIN source[c]) =< SampleSize
                 PROVE  sample = source[c]
    BY DEF IsKnown
  <2>2. PICK present \in SUBSET Ids : source[c] \in [present -> Documents[c]]
    BY <1>3 DEF SampledTyped, Contents
  <2>3. IsFiniteSet(DOMAIN source[c]) /\ Cardinality(DOMAIN source[c]) \in Nat
    BY <2>2, CollectionsAssumption, FS_Subset, FS_CardinalityType
  <2>4. /\ DOMAIN sample \subseteq DOMAIN source[c]
        /\ cursor[r].ids = DOMAIN source[c]
        /\ \A d \in DOMAIN sample : sample[d] = source[c][d]
    BY <1>3, <2>1 DEF SampleIsHeld
  <2>5. DOMAIN sample = DOMAIN source[c]
    <3>1. CASE Cardinality(Sampled(r)) = SampleSize
      <4>1. Cardinality(DOMAIN sample) =< Cardinality(DOMAIN source[c])
        BY <2>3, <2>4, FS_Subset
      <4>2. Cardinality(DOMAIN sample) = Cardinality(DOMAIN source[c])
        BY <2>1, <2>3, <3>1, <4>1, SampleSizeAssumption DEF Sampled
      <4>3. QED
        BY <2>3, <2>4, <4>2, FS_Subset
    <3>2. CASE cursor[r].ids \cap DOMAIN source[c] \subseteq Sampled(r)
      BY <2>4, <3>2 DEF Sampled
    <3>3. QED
      BY <1>1, <3>1, <3>2
  <2>6. sample = [d \in DOMAIN sample |-> sample[d]]
    BY <1>4 DEF Samples
  <2>7. source[c] = [d \in DOMAIN source[c] |-> source[c][d]]
    BY <2>2
  <2>8. QED
    BY <2>4, <2>5, <2>6, <2>7
<1>8. ASSUME NEW q \in Runs PROVE Sampling(q)'
  <2>1. CASE q # r
    BY <1>1, <1>2, <1>3, <2>1, SamplingFrame DEF SampledInv, SampledTyped, InFlight
  <2>2. CASE q = r
    <3>1. /\ cursor'[r].collection = c /\ profile'[r] = infer(sample)
          /\ run'[r] = "persisting"
      BY <1>1, <1>2, <1>3 DEF SampledTyped
    <3>2. IsObserved(c, infer(sample))' /\ IsKnown(c, infer(sample))'
      BY <1>1, <1>6, <1>7 DEF IsObserved, IsKnown, sourceVars
    <3>3. QED
      BY <1>1, <2>2, <3>1, <3>2 DEF Sampling
  <2>3. QED
    BY <2>1, <2>2
<1>9. QED
  BY <1>1, <1>5, <1>8, RunFrame

\* A record takes the profile of its own collection.
LEMMA StoreKeepsSamples ==
    ASSUME SampledInv, ProgressInv, NEW r \in Runs, UpsertReplace(r) \/ UpsertInsert(r)
    PROVE  SampledInv'
<1> DEFINE c == cursor[r].collection
<1>1. InFlight(r) /\ SampledTyped
  BY DEF UpsertReplace, UpsertInsert, InFlight, SampledInv
<1>2. c \in Collections
  BY <1>1, SampledCollection
<1>3. PICK id \in Runs \X Collections : id[2] = c /\ StoreProfile(r, id)
  <2>1. CASE UpsertReplace(r)
    BY <1>1, <2>1 DEF UpsertReplace, Records, SampledTyped
  <2>2. CASE UpsertInsert(r)
    BY <1>2, <2>2 DEF UpsertInsert
  <2>3. QED
    BY <2>1, <2>2
<1>4. /\ UNCHANGED <<sourceVars, proxyVars, run, cursor, profile>>
      /\ metadata' = [i \in DOMAIN metadata \cup {id} |->
                          IF i = id THEN profile[r] ELSE metadata[i]]
      /\ latest' = [latest EXCEPT ![c] = {profile[r]}]
      /\ upsert' = [upsert EXCEPT ![r] = "applied"]
  BY <1>3 DEF StoreProfile, RunStep
<1>5. profile[r] \in Profiles /\ IsObserved(c, profile[r]) /\ IsKnown(c, profile[r])
  BY <1>1 DEF SampledInv, SampledTyped, Sampling
<1>6. \A i \in DOMAIN metadata' :
          \/ i = id /\ metadata'[i] = profile[r]
          \/ i \in DOMAIN metadata /\ metadata'[i] = metadata[i]
  <2>1. SUFFICES ASSUME NEW i \in DOMAIN metadata'
                 PROVE  \/ i = id /\ metadata'[i] = profile[r]
                        \/ i \in DOMAIN metadata /\ metadata'[i] = metadata[i]
    OBVIOUS
  <2>2. i \in DOMAIN metadata \cup {id}
    BY <1>4, <2>1
  <2>3. metadata'[i] = IF i = id THEN profile[r] ELSE metadata[i]
    BY <1>4, <2>2
  <2>4. QED
    BY <2>2, <2>3
<1>7. SampledTyped'
  <2>1. DOMAIN metadata' \subseteq Runs \X Collections
    BY <1>1, <1>3, <1>4 DEF SampledTyped
  <2>2. \A i \in DOMAIN metadata' : metadata'[i] \in Profiles
    BY <1>1, <1>5, <1>6 DEF SampledTyped
  <2>3. latest' \in [Collections -> SUBSET Profiles]
    BY <1>1, <1>4, <1>5 DEF SampledTyped
  <2>4. QED
    BY <1>1, <1>4, <2>1, <2>2, <2>3 DEF SampledTyped, sourceVars, proxyVars
<1>8. HeldIsKept'
  BY <1>4 DEF SampledInv, HeldIsKept, sourceVars
<1>9. ASSUME NEW q \in Runs PROVE Sampling(q)'
  <2>1. DOMAIN upsert = Runs
    BY DEF ProgressInv, RunInv, ProgressTyped
  <2>2. InFlight(q)' => InFlight(q)
    BY <1>4, <2>1 DEF InFlight
  <2>3. QED
    BY <1>4, <2>2, SamplingFrame DEF SampledInv
<1>10. ProfilesAreObserved'
  <2>1. \A i \in DOMAIN metadata' : IsObserved(i[2], metadata'[i])
    BY <1>3, <1>5, <1>6 DEF SampledInv, ProfilesAreObserved
  <2>2. \A p \in Proxies : \A e \in DOMAIN loaded'[p] : IsObserved(e, loaded'[p][e])
    BY <1>4 DEF SampledInv, ProfilesAreObserved, proxyVars
  <2>3. held' = held
    BY <1>4 DEF sourceVars
  <2>4. QED
    BY <2>1, <2>2, <2>3 DEF ProfilesAreObserved, IsObserved
<1>11. SmallCollectionsKnown'
  <2>1. ASSUME changes = 0, NEW i \in DOMAIN metadata', Cardinality(DOMAIN source[i[2]]) =< SampleSize
        PROVE  metadata'[i] = infer(source[i[2]])
    BY <1>3, <1>5, <1>6, <2>1 DEF SampledInv, SmallCollectionsKnown, IsKnown
  <2>2. QED
    BY <1>4, <2>1 DEF SmallCollectionsKnown, sourceVars
<1>12. QED
  BY <1>7, <1>8, <1>9, <1>10, <1>11 DEF SampledInv

\* A proxy takes the profile of a collection from a record of that collection.
LEMMA ProxiesKeepSamples ==
    ASSUME SampledInv, ProgressInv, NEW p \in Proxies, ProxyNext(p)
    PROVE  SampledInv'
<1>1. UNCHANGED <<sourceVars, runVars>> /\ SampledTyped
  BY DEF ProxyNext, StartProxy, LoadProfile, LoadMissing, LoadFail, StopProxy, ProxyStep, SampledInv
<1> DEFINE Loaded == /\ loaded' \in [Proxies -> Loads]
                     /\ stops' \in 0 .. MaxStops
                     /\ \A q \in Proxies : \A c \in DOMAIN loaded'[q] : IsObserved(c, loaded'[q][c])
<1>2. /\ loaded \in [Proxies -> Loads] /\ stops \in 0 .. MaxStops
      /\ \A q \in Proxies : \A c \in DOMAIN loaded[q] : IsObserved(c, loaded[q][c])
  BY <1>1 DEF SampledInv, SampledTyped, ProfilesAreObserved
<1>3. Loaded
  <2>1. CASE LoadProfile(p)
    <3>0. PICK c \in wanted[p] : \E id \in Records(c) :
              loaded' = [loaded EXCEPT ![p] =
                    [e \in DOMAIN @ \cup {c} |-> IF e = c THEN metadata[id] ELSE @[e]]]
      BY <2>1, Zenon DEF LoadProfile
    <3>1. PICK id \in Records(c) :
              loaded' = [loaded EXCEPT ![p] =
                    [e \in DOMAIN @ \cup {c} |-> IF e = c THEN metadata[id] ELSE @[e]]]
      BY <3>0
    <3>2. c \in Collections /\ id \in DOMAIN metadata /\ id[2] = c /\ stops' = stops
      BY <2>1 DEF ProgressInv, RunInv, ProgressTyped, Records, LoadProfile
    <3>3. metadata[id] \in Profiles /\ IsObserved(c, metadata[id])
      BY <1>1, <3>2 DEF SampledInv, SampledTyped, ProfilesAreObserved
    <3> DEFINE more == [e \in DOMAIN loaded[p] \cup {c} |->
                            IF e = c THEN metadata[id] ELSE loaded[p][e]]
    <3>4. loaded' = [loaded EXCEPT ![p] = more]
      BY <3>1
    <3>5. more \in Loads
      BY <1>2, <3>2, <3>3, LoadGrows
    <3>6. \A e \in DOMAIN more : IsObserved(e, more[e])
      BY <1>2, <3>3
    <3> HIDE DEF more
    <3>7. QED
      BY <1>2, <3>2, <3>4, <3>5, <3>6
  <2>2. CASE StopProxy(p)
    <3>1. /\ stops < MaxStops /\ stops' = stops + 1
          /\ loaded' = [loaded EXCEPT ![p] = [c \in {} |-> {}]]
      BY <2>2 DEF StopProxy
    <3>2. stops' \in 0 .. MaxStops
      BY <1>2, <3>1, BoundsAssumption
    <3>3. QED
      BY <1>2, <3>1, <3>2, NothingIsLoad
  <2>3. CASE \/ \E environment \in Environments : StartProxy(p, environment)
             \/ LoadMissing(p) \/ LoadFail(p)
    BY <1>2, <2>3 DEF StartProxy, LoadMissing, LoadFail
  <2>4. QED
    BY <2>1, <2>2, <2>3 DEF ProxyNext
<1> HIDE DEF Loaded
<1>4. SampledTyped'
  BY <1>1, <1>3 DEF SampledTyped, sourceVars, runVars, Loaded
<1>5. \A r \in Runs : Sampling(r)'
  BY <1>1, SamplingFrame DEF SampledInv, runVars, InFlight
<1>6. HeldIsKept' /\ SmallCollectionsKnown'
  BY <1>1 DEF SampledInv, HeldIsKept, SmallCollectionsKnown, sourceVars, runVars
<1>7. ProfilesAreObserved'
  <2>1. \A id \in DOMAIN metadata' : IsObserved(id[2], metadata'[id])
    BY <1>1 DEF SampledInv, ProfilesAreObserved, runVars
  <2>2. QED
    BY <1>1, <1>3, <2>1 DEF ProfilesAreObserved, IsObserved, sourceVars, runVars, Loaded
<1>8. QED
  BY <1>4, <1>5, <1>6, <1>7 DEF SampledInv

LEMMA SampledInductive ==
    ASSUME SampledInv, ProgressInv, [Next]_vars
    PROVE  SampledInv'
<1>1. CASE SourceNext
  BY <1>1, ChangesKeepSamples
<1>2. ASSUME NEW r \in Runs, RunNext(r)
      PROVE  SampledInv'
  BY <1>2, OtherStepsKeepSamples, OpenCursorKeepsSamples, SampleDocumentKeepsSamples,
     FinishSampleKeepsSamples, StoreKeepsSamples DEF RunNext
<1>3. ASSUME NEW p \in Proxies, ProxyNext(p)
      PROVE  SampledInv'
  BY <1>3, ProxiesKeepSamples
<1>4. CASE UNCHANGED vars
  <2>1. UNCHANGED <<sourceVars, proxyVars, metadata, latest>> /\ SampledTyped'
    BY <1>4 DEF vars, sourceVars, runVars, proxyVars, SampledInv, SampledTyped
  <2>2. \A r \in Runs : Sampling(r)'
    BY <1>4, SamplingFrame DEF vars, runVars, SampledInv, InFlight
  <2>3. QED
    BY <2>1, <2>2, RunFrame
<1>5. QED
  BY <1>1, <1>2, <1>3, <1>4 DEF Next

LEMMA SampledInvariant == Spec => []SampledInv
<1>1. SampledInv /\ ProgressInv /\ [Next]_vars => SampledInv'
  BY SampledInductive
<1>2. QED
  BY <1>1, SampledInitially, ProgressInvariant, PTL DEF Spec

\* Every place of a profile holds what infer gives of some sample, also when runs
\* overlap and fail.
THEOREM DiscoveryIsTyped == Spec => []TypeOK
<1>1. SampledInv /\ ProgressInv => TypeOK
  <2>1. SUFFICES ASSUME SampledInv, ProgressInv PROVE TypeOK
    OBVIOUS
  <2>2. \A c \in Collections : \A d \in DOMAIN source[c] : d \in Ids /\ source[c][d] \in Documents[c]
    <3>1. SUFFICES ASSUME NEW c \in Collections
                   PROVE  \A d \in DOMAIN source[c] : d \in Ids /\ source[c][d] \in Documents[c]
      OBVIOUS
    <3>2. PICK present \in SUBSET Ids : source[c] \in [present -> Documents[c]]
      BY <2>1 DEF SampledInv, SampledTyped, Contents
    <3>3. QED
      BY <3>2
  <2>3. \A r \in Runs : /\ cursor[r].collection \in Collections \cup {""}
                        /\ cursor[r].ids \cup DOMAIN cursor[r].documents \subseteq Ids
    BY <2>1, SampleIsFinite DEF SampledInv, SampledTyped, Sampled
  <2>4. \A p \in Proxies : /\ DOMAIN loaded[p] \subseteq Collections
                           /\ \A c \in DOMAIN loaded[p] : loaded[p][c] \in Profiles
    <3>1. SUFFICES ASSUME NEW p \in Proxies
                   PROVE  /\ DOMAIN loaded[p] \subseteq Collections
                          /\ \A c \in DOMAIN loaded[p] : loaded[p][c] \in Profiles
      OBVIOUS
    <3>2. PICK some \in SUBSET Collections : loaded[p] \in [some -> Profiles]
      <4>1. loaded[p] \in Loads
        BY <2>1 DEF SampledInv, SampledTyped
      <4>2. QED
        BY <4>1 DEF Loads
    <3>3. QED
      BY <3>2
  <2>5. QED
    BY <2>1, <2>2, <2>3, <2>4
       DEF TypeOK, SampledInv, SampledTyped, ProgressInv, RunInv, ProgressTyped, Configurations
<1>2. QED
  BY <1>1, SampledInvariant, ProgressInvariant, PTL

\* infer over a cursor's documents: a stored or loaded profile never speaks of a
\* field or a type that its collection never held, and never counts more documents
\* than were sampled, whatever changes under the cursor and whichever runs overlap.
THEOREM StoredProfilesAreObserved == Spec => []ProfilesAreObserved
<1>1. SampledInv => ProfilesAreObserved
  BY DEF SampledInv
<1>2. QED
  BY <1>1, SampledInvariant, PTL

\* discover_collection stops at the sample's size and at the cursor's end: where
\* nothing changes, a collection that fits into the sample is known as it is.
THEOREM SmallCollectionsAreKnown == Spec => []SmallCollectionsKnown
<1>1. SampledInv => SmallCollectionsKnown
  BY DEF SampledInv
<1>2. QED
  BY <1>1, SampledInvariant, PTL

=============================================================================
