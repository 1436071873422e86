------------------------------- MODULE Discovery -------------------------------
(***************************************************************************)
(* Schema discovery and the start of a proxy: sampling, inference, the     *)
(* metadata collection and loading from it                                 *)
(* (crates/schema-discovery/src/lib.rs and main.rs, run_server of          *)
(* crates/proxy/src/lib.rs).                                               *)
(*                                                                         *)
(* A discovery run is a process that samples one collection after another  *)
(* with a cursor, infers a profile and upserts it; a proxy is a process    *)
(* that reads one profile per configured collection before it listens.     *)
(* Meanwhile clients change the source collections.  The code yields at    *)
(* every MongoDB call, so each call is an action of its own.               *)
(*                                                                         *)
(* A name is [text, padded]: padded with white space or not; the empty     *)
(* name has text "".  Sorted order is by Rank.                             *)
(***************************************************************************)
EXTENDS SchemaProfiles

CONSTANTS
    Collections,    \* the source collections, by name
    Rank,           \* their place in sorted order
    Runs,           \* executions of the discovery command
    Proxies,        \* proxy processes
    Environments,   \* what MONGO_COLLECTIONS and MONGO_COLLECTION may be set to
    Ids,            \* document ids of a collection
    Documents,      \* collection -> the documents it may hold
    SampleSize,     \* MONGO_SAMPLE_SIZE
    Overlap,        \* whether a discovery run may begin before another has ended
    MaxChanges,     \* bound on changes of the source collections
    MaxStops        \* bound on stops of a proxy

ASSUME CollectionsAssumption ==
    /\ Rank \in [Collections -> Nat]
    /\ \A c, d \in Collections : Rank[c] = Rank[d] => c = d
    /\ IsFiniteSet(Collections) /\ IsFiniteSet(Ids)
ASSUME ProcessesAssumption == Runs \cap Proxies = {}
ASSUME SampleSizeAssumption == SampleSize \in Nat \ {0}
ASSUME BoundsAssumption == Overlap \in BOOLEAN /\ MaxChanges \in Nat /\ MaxStops \in Nat

VARIABLES
    source,     \* collection -> document id -> document
    metadata,   \* records of __pgproxy_schema: <<inserting run, collection>> -> profile
    run,        \* where each discovery run is
    names,      \* the collections it has yet to finish
    cursor,     \* its sample: the collection, the ids there at the start, the documents read
    profile,    \* the profile it persists
    upsert,     \* its replace_one call on the server
    proxy,      \* where each proxy is
    wanted,     \* the collections it has yet to load
    loaded,     \* the profiles it has loaded
    asked,      \* what each run and each proxy found in its environment
    held,       \* history: every document a collection ever held
    latest,     \* history: the profile persisted last, by collection
    wrote,      \* history: the collections whose profile a run has written
    changes, stops

sourceVars == <<source, held, changes>>
runVars == <<metadata, run, names, cursor, profile, upsert, latest, wrote>>
proxyVars == <<proxy, wanted, loaded, stops>>
vars == <<sourceVars, runVars, proxyVars, asked>>

-----------------------------------------------------------------------------
(* The configured allowlist *)

METADATA_COLLECTION == "__pgproxy_schema"

Names == [text : STRING, padded : BOOLEAN]

trim(name) == [name EXCEPT !.padded = FALSE]

\* Mutant: the name of the metadata collection is not reserved.
validated_collection_names_unreserved(list) ==
    {{name.text : name \in ToSet(l)} :
        l \in {l \in {list} : /\ l # <<>>
                              /\ IsInjective(l)
                              /\ \A name \in ToSet(l) : ~name.padded /\ name.text # ""}}

\* Mutant: a name that is not acceptable is dropped instead of refused.
validated_collection_names_lenient(list) ==
    {{name.text : name \in {n \in ToSet(list) : n.text \notin {"", METADATA_COLLECTION}}}}

\* The canonical set of names, or no result.
validated_collection_names(list) ==
    {{name.text : name \in ToSet(l)} :
        l \in {l \in {list} :
                  /\ l # <<>>
                  /\ IsInjective(l)
                  /\ \A name \in ToSet(l) :
                        ~name.padded /\ name.text \notin {"", METADATA_COLLECTION}}}

IsBlank(list) == list = <<>> \/ (Len(list) = 1 /\ list[1].text = "")

\* A list that is not blank goes before the legacy setting, and only its names
\* are trimmed.
parse_configured_collections(environment) ==
    IF IsBlank(environment.list)
    THEN UNION {validated_collection_names(<<name>>) : name \in environment.legacy}
    ELSE validated_collection_names([i \in DOMAIN environment.list |->
                                        trim(environment.list[i])])

\* The names in force: those of the list, or without one the legacy name.
Given(environment) ==
    IF IsBlank(environment.list) THEN environment.legacy ELSE ToSet(environment.list)

\* A list of names, and at most one legacy name; every name in force that is none
\* of the faulty ones is that of a collection: MongoDB has them all, empty or not.
ASSUME EnvironmentsAssumption ==
    \A environment \in Environments :
        /\ environment \in [list : Seq(Names), legacy : SUBSET Names]
        /\ \A n, m \in environment.legacy : n = m
        /\ \A name \in Given(environment) :
              name.text \in Collections \cup {"", METADATA_COLLECTION}

IsFirst(c, set) == c \in set /\ \A d \in set : Rank[c] =< Rank[d]

-----------------------------------------------------------------------------

Unset == [list |-> <<>>, legacy |-> {}]
NoCursor == [collection |-> "", ids |-> {}, documents |-> [d \in {} |-> {}]]

\* What a collection may hold, and what a cursor may have read of it.
Contents(c) == UNION {[present -> Documents[c]] : present \in SUBSET Ids}
Samples == UNION {[read -> UNION {Documents[c] : c \in Collections}] : read \in SUBSET Ids}
Profiles == {infer(documents) : documents \in Samples}

Records(c) == {id \in DOMAIN metadata : id[2] = c}

RunIsActive(r) == run[r] \in {"next", "sampling", "persisting"}

InFlight(r) == upsert[r] \in {"sent", "inserting"}

Init ==
    /\ source \in {s \in [Collections -> UNION {Contents(c) : c \in Collections}] :
                    \A c \in Collections : s[c] \in Contents(c)}
    /\ metadata = [id \in {} |-> {}]
    /\ run = [r \in Runs |-> "idle"]
    /\ names = [r \in Runs |-> {}]
    /\ cursor = [r \in Runs |-> NoCursor]
    /\ profile = [r \in Runs |-> infer(NoCursor.documents)]
    /\ upsert = [r \in Runs |-> "none"]
    /\ proxy = [p \in Proxies |-> "down"]
    /\ wanted = [p \in Proxies |-> {}]
    /\ loaded = [p \in Proxies |-> [c \in {} |-> {}]]
    /\ asked = [process \in Runs \cup Proxies |-> Unset]
    /\ held = [c \in Collections |-> {source[c][d] : d \in DOMAIN source[c]}]
    /\ latest = [c \in Collections |-> {}]
    /\ wrote = [r \in Runs |-> {}]
    /\ changes = 0
    /\ stops = 0

-----------------------------------------------------------------------------
(* Clients change the source collections (external) *)

Change(c, content) ==
    /\ changes < MaxChanges
    /\ source' = [source EXCEPT ![c] = content]
    /\ held' = [held EXCEPT ![c] = @ \cup {content[d] : d \in DOMAIN content}]
    /\ changes' = changes + 1
    /\ UNCHANGED <<runVars, proxyVars, asked>>

StoreDocument(c, d, document) ==
    Change(c, [e \in DOMAIN source[c] \cup {d} |-> IF e = d THEN document ELSE source[c][e]])

RemoveDocument(c, d) ==
    /\ d \in DOMAIN source[c]
    /\ Change(c, [e \in DOMAIN source[c] \ {d} |-> source[c][e]])

-----------------------------------------------------------------------------
(* A discovery run *)

RunStep == UNCHANGED <<sourceVars, proxyVars>>

\* One operator starts a command when the one before has ended, well or not, and
\* cannot see what a dead command has left on the server.  Nothing keeps the
\* commands of several operators apart.
MayBegin == Overlap \/ \A q \in Runs : ~RunIsActive(q)

\* The environment is read and validated before anything is sampled.
BeginRun(r, environment) ==
    /\ run[r] = "idle"
    /\ MayBegin
    /\ asked' = [asked EXCEPT ![r] = environment]
    /\ \/ /\ parse_configured_collections(environment) = {}
          /\ run' = [run EXCEPT ![r] = "failed"]
          /\ UNCHANGED names
       \/ \E configured \in parse_configured_collections(environment) :
            /\ run' = [run EXCEPT ![r] = "next"]
            /\ names' = [names EXCEPT ![r] = configured]
    /\ RunStep
    /\ UNCHANGED <<metadata, cursor, profile, upsert, latest, wrote>>

\* Mutant: the buffer of sampled documents is kept from one collection to the next.
OpenCursor_keeps_documents(r) ==
    /\ run[r] = "next"
    /\ \E c \in names[r] :
          /\ IsFirst(c, names[r])
          /\ cursor' = [cursor EXCEPT ![r].collection = c, ![r].ids = DOMAIN source[c]]
    /\ run' = [run EXCEPT ![r] = "sampling"]
    /\ RunStep
    /\ UNCHANGED <<asked, metadata, names, profile, upsert, latest, wrote>>

\* discover_collection, up to the first document.
OpenCursor(r) ==
    /\ run[r] = "next"
    /\ \E c \in names[r] :
          /\ IsFirst(c, names[r])
          /\ cursor' = [cursor EXCEPT ![r] = [collection |-> c, ids |-> DOMAIN source[c],
                                              documents |-> NoCursor.documents]]
    /\ run' = [run EXCEPT ![r] = "sampling"]
    /\ RunStep
    /\ UNCHANGED <<asked, metadata, names, profile, upsert, latest, wrote>>

Sampled(r) == DOMAIN cursor[r].documents

\* The cursor meets the documents in some order, as they are when it does; one
\* that was inserted after the start may be met too.
SampleDocument(r) ==
    /\ run[r] = "sampling"
    /\ Cardinality(Sampled(r)) < SampleSize
    /\ LET c == cursor[r].collection IN
       \E d \in DOMAIN source[c] \ Sampled(r) :
          cursor' = [cursor EXCEPT ![r].documents =
                        [e \in DOMAIN @ \cup {d} |-> IF e = d THEN source[c][d] ELSE @[e]]]
    /\ RunStep
    /\ UNCHANGED <<asked, metadata, run, names, profile, upsert, latest, wrote>>

\* Mutant: the cursor is closed one document early.
FinishSample_early(r) ==
    /\ run[r] = "sampling"
    /\ \/ Cardinality(Sampled(r)) + 1 >= SampleSize
       \/ cursor[r].ids \cap DOMAIN source[cursor[r].collection] \subseteq Sampled(r)
    /\ profile' = [profile EXCEPT ![r] = infer(cursor[r].documents)]
    /\ upsert' = [upsert EXCEPT ![r] = "sent"]
    /\ run' = [run EXCEPT ![r] = "persisting"]
    /\ RunStep
    /\ UNCHANGED <<asked, metadata, names, cursor, latest, wrote>>

\* Enough documents, or none left: infer the profile and send the upsert.
FinishSample(r) ==
    /\ run[r] = "sampling"
    /\ \/ Cardinality(Sampled(r)) = SampleSize
       \/ cursor[r].ids \cap DOMAIN source[cursor[r].collection] \subseteq Sampled(r)
    /\ profile' = [profile EXCEPT ![r] = infer(cursor[r].documents)]
    /\ upsert' = [upsert EXCEPT ![r] = "sent"]
    /\ run' = [run EXCEPT ![r] = "persisting"]
    /\ RunStep
    /\ UNCHANGED <<asked, metadata, names, cursor, latest, wrote>>

\* Mutant: the run goes on without waiting for the acknowledgement.
PersistOk_unacknowledged(r) ==
    /\ run[r] = "persisting"
    /\ names' = [names EXCEPT ![r] = @ \ {cursor[r].collection}]
    /\ run' = [run EXCEPT ![r] = IF names'[r] = {} THEN "done" ELSE "next"]
    /\ upsert' = [upsert EXCEPT ![r] = "none"]
    /\ RunStep
    /\ UNCHANGED <<asked, metadata, cursor, profile, latest, wrote>>

\* Mutant: the collection stays on the list.
PersistOk_repeats(r) ==
    /\ run[r] = "persisting"
    /\ upsert[r] = "applied"
    /\ run' = [run EXCEPT ![r] = "next"]
    /\ upsert' = [upsert EXCEPT ![r] = "none"]
    /\ RunStep
    /\ UNCHANGED <<asked, metadata, names, cursor, profile, latest, wrote>>

\* The upsert is acknowledged: on to the next collection, or done.
PersistOk(r) ==
    /\ run[r] = "persisting"
    /\ upsert[r] = "applied"
    /\ names' = [names EXCEPT ![r] = @ \ {cursor[r].collection}]
    /\ run' = [run EXCEPT ![r] = IF names'[r] = {} THEN "done" ELSE "next"]
    /\ upsert' = [upsert EXCEPT ![r] = "none"]
    /\ RunStep
    /\ UNCHANGED <<asked, metadata, cursor, profile, latest, wrote>>

\* A MongoDB call fails, or the command is killed.  What the server has of the
\* upsert goes on there; a request that was sent may also never have arrived.
RunFail(r) ==
    /\ RunIsActive(r)
    /\ run' = [run EXCEPT ![r] = "failed"]
    /\ \/ UNCHANGED upsert
       \/ upsert[r] = "sent" /\ upsert' = [upsert EXCEPT ![r] = "none"]
    /\ RunStep
    /\ UNCHANGED <<asked, metadata, names, cursor, profile, latest, wrote>>

-----------------------------------------------------------------------------
(* replace_one with upsert (external): MongoDB looks for a record with the  *)
(* key and replaces one; when there is none it inserts, and without a       *)
(* unique index two upserts may both have found none.                       *)

StoreProfile(r, id) ==
    LET c == cursor[r].collection IN
    /\ metadata' = [i \in DOMAIN metadata \cup {id} |->
                        IF i = id THEN profile[r] ELSE metadata[i]]
    /\ latest' = [latest EXCEPT ![c] = {profile[r]}]
    /\ wrote' = [wrote EXCEPT ![r] = @ \cup {c}]
    /\ upsert' = [upsert EXCEPT ![r] = "applied"]
    /\ RunStep
    /\ UNCHANGED <<asked, run, names, cursor, profile>>

\* Mutant: the profile is inserted without looking for a record to replace.
UpsertReplace_inserts(r) ==
    /\ upsert[r] = "sent"
    /\ StoreProfile(r, <<r, cursor[r].collection>>)

UpsertReplace(r) ==
    /\ upsert[r] = "sent"
    /\ \E id \in Records(cursor[r].collection) : StoreProfile(r, id)

UpsertMiss(r) ==
    /\ upsert[r] = "sent"
    /\ Records(cursor[r].collection) = {}
    /\ upsert' = [upsert EXCEPT ![r] = "inserting"]
    /\ RunStep
    /\ UNCHANGED <<asked, metadata, run, names, cursor, profile, latest, wrote>>

UpsertInsert(r) ==
    /\ upsert[r] = "inserting"
    /\ StoreProfile(r, <<r, cursor[r].collection>>)

-----------------------------------------------------------------------------
(* A proxy, from its start to its end *)

ProxyStep == UNCHANGED <<sourceVars, runVars>>

StartProxy(p, environment) ==
    /\ proxy[p] = "down"
    /\ asked' = [asked EXCEPT ![p] = environment]
    /\ \/ /\ parse_configured_collections(environment) = {}
          /\ proxy' = [proxy EXCEPT ![p] = "refused"]
          /\ UNCHANGED wanted
       \/ \E configured \in parse_configured_collections(environment) :
            /\ proxy' = [proxy EXCEPT ![p] = "loading"]
            /\ wanted' = [wanted EXCEPT ![p] = configured]
    /\ ProxyStep
    /\ UNCHANGED <<loaded, stops>>

\* find_one returns any record of the collection; after the last the proxy listens.
LoadProfile(p) ==
    /\ proxy[p] = "loading"
    /\ \E c \in wanted[p] :
          /\ IsFirst(c, wanted[p])
          /\ \E id \in Records(c) :
                loaded' = [loaded EXCEPT ![p] =
                    [e \in DOMAIN @ \cup {c} |-> IF e = c THEN metadata[id] ELSE @[e]]]
          /\ wanted' = [wanted EXCEPT ![p] = @ \ {c}]
          /\ proxy' = [proxy EXCEPT ![p] = IF wanted[p] = {c} THEN "serving" ELSE "loading"]
    /\ ProxyStep
    /\ UNCHANGED <<asked, stops>>

\* Mutant: a collection without a profile is left out of the proxy's tables.
LoadMissing_skips(p) ==
    /\ proxy[p] = "loading"
    /\ \E c \in wanted[p] :
          /\ IsFirst(c, wanted[p])
          /\ Records(c) = {}
          /\ wanted' = [wanted EXCEPT ![p] = @ \ {c}]
          /\ proxy' = [proxy EXCEPT ![p] = IF wanted[p] = {c} THEN "serving" ELSE "loading"]
    /\ ProxyStep
    /\ UNCHANGED <<asked, loaded, stops>>

\* A configured collection has no profile: the start fails.
LoadMissing(p) ==
    /\ proxy[p] = "loading"
    /\ \E c \in wanted[p] : IsFirst(c, wanted[p]) /\ Records(c) = {}
    /\ proxy' = [proxy EXCEPT ![p] = "refused"]
    /\ ProxyStep
    /\ UNCHANGED <<asked, wanted, loaded, stops>>

\* MongoDB or the listener's address is unavailable.
LoadFail(p) ==
    /\ proxy[p] = "loading"
    /\ proxy' = [proxy EXCEPT ![p] = "refused"]
    /\ ProxyStep
    /\ UNCHANGED <<asked, wanted, loaded, stops>>

\* The process ends, at any time, and may be started again.
StopProxy(p) ==
    /\ proxy[p] # "down"
    /\ stops < MaxStops
    /\ proxy' = [proxy EXCEPT ![p] = "down"]
    /\ wanted' = [wanted EXCEPT ![p] = {}]
    /\ loaded' = [loaded EXCEPT ![p] = [c \in {} |-> {}]]
    /\ stops' = stops + 1
    /\ ProxyStep
    /\ UNCHANGED asked

-----------------------------------------------------------------------------

RunNext(r) ==
    \/ \E environment \in Environments : BeginRun(r, environment)
    \/ OpenCursor(r) \/ SampleDocument(r) \/ FinishSample(r) \/ PersistOk(r) \/ RunFail(r)
    \/ UpsertReplace(r) \/ UpsertMiss(r) \/ UpsertInsert(r)

ProxyNext(p) ==
    \/ \E environment \in Environments : StartProxy(p, environment)
    \/ LoadProfile(p) \/ LoadMissing(p) \/ LoadFail(p) \/ StopProxy(p)

SourceNext ==
    \E c \in Collections, d \in Ids :
        \/ \E document \in Documents[c] : StoreDocument(c, d, document)
        \/ RemoveDocument(c, d)

Next ==
    \/ SourceNext
    \/ \E r \in Runs : RunNext(r)
    \/ \E p \in Proxies : ProxyNext(p)

Spec == Init /\ [][Next]_vars

\* MongoDB answers what it is asked and the processes take up the answers; a
\* command, a start and a change of a document are nobody's duty.
Fairness ==
    /\ \A r \in Runs :
          /\ WF_vars(OpenCursor(r) \/ SampleDocument(r) \/ FinishSample(r) \/ PersistOk(r))
          /\ WF_vars(UpsertReplace(r) \/ UpsertMiss(r) \/ UpsertInsert(r))
    /\ \A p \in Proxies : WF_vars(LoadProfile(p) \/ LoadMissing(p))

FairSpec == Spec /\ Fairness

-----------------------------------------------------------------------------
(* Properties *)

Configurations == {Unset} \cup Environments

\* The types of the state: every profile, wherever it is, is one that infer gives.
TypeOK ==
    /\ \A c \in Collections : \A d \in DOMAIN source[c] :
          d \in Ids /\ source[c][d] \in Documents[c]
    /\ DOMAIN metadata \subseteq Runs \X Collections
    /\ \A id \in DOMAIN metadata : metadata[id] \in Profiles
    /\ run \in [Runs -> {"idle", "next", "sampling", "persisting", "done", "failed"}]
    /\ names \in [Runs -> SUBSET Collections]
    /\ \A r \in Runs :
          /\ cursor[r].collection \in Collections \cup {""}
          /\ cursor[r].ids \cup DOMAIN cursor[r].documents \subseteq Ids
    /\ profile \in [Runs -> Profiles]
    /\ upsert \in [Runs -> {"none", "sent", "inserting", "applied"}]
    /\ proxy \in [Proxies -> {"down", "loading", "serving", "refused"}]
    /\ wanted \in [Proxies -> SUBSET Collections]
    /\ \A p \in Proxies :
          /\ DOMAIN loaded[p] \subseteq Collections
          /\ \A c \in DOMAIN loaded[p] : loaded[p][c] \in Profiles
    /\ asked \in [Runs \cup Proxies -> Configurations]
    /\ latest \in [Collections -> SUBSET Profiles]
    /\ wrote \in [Runs -> SUBSET Collections]
    /\ changes \in 0 .. MaxChanges
    /\ stops \in 0 .. MaxStops

\* The names a run or a proxy was given.
Configured(process) == {name.text : name \in Given(asked[process])}

\* No name, an empty one, that of the metadata collection, or a name twice.
HasFault(environment) ==
    \/ Given(environment) = {}
    \/ \E name \in Given(environment) : name.text \in {"", METADATA_COLLECTION}
    \/ /\ ~IsBlank(environment.list)
       /\ \E i, j \in DOMAIN environment.list :
             i # j /\ environment.list[i].text = environment.list[j].text

\* A discovery run with an invalid allowlist changes no profile, not even those
\* of the valid names before the wrong one (lib.rs, the comment of
\* discover_and_persist_collections: it "cannot leave a partially refreshed
\* metadata set").
InvalidAllowlistChangesNothing ==
    \A r \in Runs : HasFault(asked[r]) => wrote[r] = {}

\* A run that stops half way, whatever failed, has refreshed the first of its
\* collections in sorted order and no other, and one that reports success has
\* refreshed every one, also when another run writes the same records.
RefreshIsPrefix ==
    \A r \in Runs :
        /\ wrote[r] \subseteq Configured(r)
        /\ \A c \in wrote[r], d \in Configured(r) : Rank[d] =< Rank[c] => d \in wrote[r]
        /\ run[r] = "done" => wrote[r] = Configured(r)

\* What a profile of collection c says was observed, some document of c held.
IsObserved(c, fields) ==
    \A path \in DOMAIN fields :
        /\ fields[path].observed_types # {}
        /\ \A type \in fields[path].observed_types :
              \E document \in held[c] : path \in DOMAIN document /\ document[path].type = type
        /\ fields[path].present_documents >= 1
        /\ fields[path].present_documents + fields[path].missing_documents =< SampleSize

\* No profile, in the metadata or in a proxy, has a field or a type that its own
\* collection never had, whatever other collections the same run sampled and
\* however the collection changed under the cursor.
ProfilesAreObserved ==
    /\ \A id \in DOMAIN metadata : IsObserved(id[2], metadata[id])
    /\ \A p \in Proxies : \A c \in DOMAIN loaded[p] : IsObserved(c, loaded[p][c])

\* Without concurrent changes a collection no larger than the sample is known
\* completely: nothing of it is missed by the cursor's early stop.
SmallCollectionsKnown ==
    changes = 0 =>
        \A id \in DOMAIN metadata :
            Cardinality(DOMAIN source[id[2]]) =< SampleSize =>
                metadata[id] = infer(source[id[2]])

\* A proxy that serves has a profile for each of its configured collections and
\* for no other (run_server: it "never invents field paths or result types").
ServingIsComplete ==
    \A p \in Proxies : proxy[p] = "serving" => DOMAIN loaded[p] = Configured(p)

\* A collection is settled when it has one record and no upsert that found none
\* has yet to insert another.
Settled(c) ==
    /\ \E id \in DOMAIN metadata : Records(c) = {id}
    /\ \A r \in Runs : upsert[r] = "inserting" => cursor[r].collection # c

\* "One profile per source collection" (lib.rs:270) and "the most recently
\* persisted profile" (lib.rs:301) hold of a collection from the moment it is
\* settled, for good, whatever runs overlap, fail or leave an upsert on the
\* server: its record stays the only one, each profile replaces the last in one
\* step, and a start takes the one that the server applied last.  That order is
\* the server's: the upsert of a dead command may replace a newer profile.
\* Before a collection is settled two upserts may both find no record, the first
\* from a command that is dead already: each then inserts one, the collection is
\* never settled, and a start takes either profile.
Register == INSTANCE ProfileRegister WITH
    register <- latest,
    settled <- {c \in Collections : Settled(c)}

KeepsRegister == Register!Spec

\* Every discovery run ends and every start of a proxy is decided, whatever
\* changes under the cursor and whatever other runs do.
RunsAndStartsEnd ==
    /\ \A r \in Runs : RunIsActive(r) ~> run[r] \in {"done", "failed"}
    /\ \A p \in Proxies : proxy[p] = "loading" ~> proxy[p] # "loading"

=============================================================================
