------------------------------ MODULE LeadCache ------------------------------
(***************************************************************************)
(* The cached lead lists of one tenant (leads/cache.py and the list and    *)
(* write handlers of leads/views.py): requests that commit a change and    *)
(* then move the tenant's cache version on, and list requests that build   *)
(* their key from the version, read the cache, and fill it on a miss.      *)
(* Redis may fail at each of these calls and be back for the next one.     *)
(*                                                                         *)
(* The lead table is the number of changes committed to it, and a list     *)
(* response is the number of changes it shows.                             *)
(***************************************************************************)
EXTENDS Naturals

CONSTANTS
  Writer,       \* requests that change leads
  Reader,       \* list requests of one scope and filter
  MaxChanges    \* bound: changes to the lead table

ASSUME MaxChangesAssumption == MaxChanges \in Nat

VARIABLES
  leads,        \* changes committed to the lead table
  version,      \* lead-api-version at the cache, 0 for a missing key
  entry,        \* lead-api entries by version: {} or {a response}
  wpc,          \* where each writer is
  seen,         \* the version a writer read, in invalidate_business_lead_cache
  rpc,          \* where each reader is
  key,          \* the version in a reader's cache key
  payload,      \* the response a reader built or found
  blind,        \* history: a Redis error made the reader's key one of version 1
  change,       \* history: the number of the change a writer committed
  invalidated,  \* history: the latest change whose invalidation is over
  due           \* history: the latest one when a reader built its key

writerVars == <<wpc, seen, change>>
readerVars == <<rpc, key, payload, blind, due>>
vars == <<leads, version, entry, writerVars, readerVars, invalidated>>

Version == 1..(MaxChanges + 1)
Response == 0..MaxChanges

Init ==
  /\ leads = 0
  /\ version = 0
  /\ entry = [v \in Version |-> {}]
  /\ wpc = [w \in Writer |-> "idle"]
  /\ seen = [w \in Writer |-> 0]
  /\ rpc = [r \in Reader |-> "idle"]
  /\ key = [r \in Reader |-> 1]
  /\ payload = [r \in Reader |-> 0]
  /\ blind = [r \in Reader |-> FALSE]
  /\ change = [w \in Writer |-> 0]
  /\ invalidated = 0
  /\ due = [r \in Reader |-> 0]

------------------------------------------------------------------------------
(* A request that changes leads.                                           *)

\* The change commits; the on_commit hook is still to run.
Commit(w) ==
  /\ wpc[w] = "idle"
  /\ leads < MaxChanges
  /\ leads' = leads + 1
  /\ change' = [change EXCEPT ![w] = leads']
  /\ wpc' = [wpc EXCEPT ![w] = "committed"]
  /\ UNCHANGED <<version, entry, seen, readerVars, invalidated>>

\* invalidate_business_lead_cache: value = cache.get(key) ...
ReadVersion(w) ==
  /\ wpc[w] = "committed"
  /\ seen' = [seen EXCEPT ![w] = IF version = 0 THEN 1 ELSE version]
  /\ wpc' = [wpc EXCEPT ![w] = "read"]
  /\ UNCHANGED <<leads, version, entry, change, readerVars, invalidated>>

\* The writer's invalidation is over.
Invalidated(w) == invalidated' = IF change[w] > invalidated THEN change[w] ELSE invalidated

\* ... cache.set(key, int(value or 1) + 1).
WriteVersion(w) ==
  /\ wpc[w] = "read"
  /\ version' = seen[w] + 1
  /\ Invalidated(w)
  /\ wpc' = [wpc EXCEPT ![w] = "idle"]
  /\ UNCHANGED <<leads, entry, seen, change, readerVars>>

\* Redis is unreachable, or the process dies after the commit: no version is
\* written, and the request is answered all the same.
SkipInvalidation(w) ==
  /\ wpc[w] \in {"committed", "read"}
  /\ wpc' = [wpc EXCEPT ![w] = "idle"]
  /\ UNCHANGED <<leads, version, entry, seen, change, readerVars, invalidated>>

------------------------------------------------------------------------------
(* A list request.                                                         *)

\* The reader's key is that of version v.
Keyed(r, v) ==
  /\ key' = [key EXCEPT ![r] = v]
  /\ due' = [due EXCEPT ![r] = invalidated]
  /\ rpc' = [rpc EXCEPT ![r] = "keyed"]

\* lead_cache_version, for lead_api_cache_key: value = cache.get(key) ...
BuildKey(r) ==
  /\ rpc[r] = "idle"
  /\ IF version = 0 THEN rpc' = [rpc EXCEPT ![r] = "unversioned"] /\ UNCHANGED <<key, due>>
                    ELSE Keyed(r, version)
  /\ UNCHANGED <<leads, version, entry, writerVars, payload, blind, invalidated>>

\* ... a missing version is added as 1, unless there is one by now ...
AddVersion(r) ==
  /\ rpc[r] = "unversioned"
  /\ version' = IF version = 0 THEN 1 ELSE version
  /\ rpc' = [rpc EXCEPT ![r] = "added"]
  /\ UNCHANGED <<leads, entry, writerVars, key, payload, blind, due, invalidated>>

\* ... and read again.
ReadAdded(r) ==
  /\ rpc[r] = "added"
  /\ Keyed(r, version)
  /\ UNCHANGED <<leads, version, entry, writerVars, payload, blind, invalidated>>

\* A Redis error at any of the three: the version is taken for 1.
FallBack(r) ==
  /\ rpc[r] \in {"idle", "unversioned", "added"}
  /\ Keyed(r, 1)
  /\ blind' = [blind EXCEPT ![r] = TRUE]
  /\ UNCHANGED <<leads, version, entry, writerVars, payload, invalidated>>

\* Mutant of Hit: what was found is stored again.
HitAndKeep(r) ==
  /\ rpc[r] = "keyed"
  /\ \E response \in entry[key[r]] : payload' = [payload EXCEPT ![r] = response]
  /\ rpc' = [rpc EXCEPT ![r] = "queried"]
  /\ UNCHANGED <<leads, version, entry, writerVars, key, blind, due, invalidated>>

\* get_cached_lead_response finds an entry, and the request answers with it.
Hit(r) ==
  /\ rpc[r] = "keyed"
  /\ \E response \in entry[key[r]] : payload' = [payload EXCEPT ![r] = response]
  /\ rpc' = [rpc EXCEPT ![r] = "answered"]
  /\ UNCHANGED <<leads, version, entry, writerVars, key, blind, due, invalidated>>

\* It finds none, or no cache ...
Miss(r) ==
  /\ rpc[r] = "keyed"
  /\ rpc' = [rpc EXCEPT ![r] = "missed"]
  /\ UNCHANGED <<leads, version, entry, writerVars, key, payload, blind, due, invalidated>>

\* ... and reads the database ...
Query(r) ==
  /\ rpc[r] = "missed"
  /\ payload' = [payload EXCEPT ![r] = leads]
  /\ rpc' = [rpc EXCEPT ![r] = "queried"]
  /\ UNCHANGED <<leads, version, entry, writerVars, key, blind, due, invalidated>>

\* Mutant of Store: the key is built after the query.
StoreCurrent(r) ==
  /\ rpc[r] = "queried"
  /\ entry' = [entry EXCEPT ![version] = {payload[r]}]
  /\ rpc' = [rpc EXCEPT ![r] = "answered"]
  /\ UNCHANGED <<leads, version, writerVars, key, payload, blind, due, invalidated>>

\* ... and stores what it read under the key built before.
Store(r) ==
  /\ rpc[r] = "queried"
  /\ entry' = [entry EXCEPT ![key[r]] = {payload[r]}]
  /\ rpc' = [rpc EXCEPT ![r] = "answered"]
  /\ UNCHANGED <<leads, version, writerVars, key, payload, blind, due, invalidated>>

\* cache_lead_response fails without a cache.
StoreNothing(r) ==
  /\ rpc[r] = "queried"
  /\ rpc' = [rpc EXCEPT ![r] = "answered"]
  /\ UNCHANGED <<leads, version, entry, writerVars, key, payload, blind, due, invalidated>>

\* The response is gone, and the reader asks again some time.
Answer(r) ==
  /\ rpc[r] = "answered"
  /\ rpc' = [rpc EXCEPT ![r] = "idle"]
  /\ key' = [key EXCEPT ![r] = 1]
  /\ payload' = [payload EXCEPT ![r] = 0]
  /\ blind' = [blind EXCEPT ![r] = FALSE]
  /\ due' = [due EXCEPT ![r] = 0]
  /\ UNCHANGED <<leads, version, entry, writerVars, invalidated>>

\* An entry's minute (LEAD_API_CACHE_TTL) is over.
Expire(v) ==
  /\ entry[v] # {}
  /\ entry' = [entry EXCEPT ![v] = {}]
  /\ UNCHANGED <<leads, version, writerVars, readerVars, invalidated>>

------------------------------------------------------------------------------
WriterStep(w) == Commit(w) \/ ReadVersion(w) \/ WriteVersion(w) \/ SkipInvalidation(w)

ReaderStep(r) ==
  \/ BuildKey(r) \/ AddVersion(r) \/ ReadAdded(r) \/ FallBack(r)
  \/ Hit(r) \/ Miss(r) \/ Query(r) \/ Store(r) \/ StoreNothing(r) \/ Answer(r)

Next ==
  \/ \E w \in Writer : WriterStep(w)
  \/ \E r \in Reader : ReaderStep(r)
  \/ \E v \in Version : Expire(v)

\* Redis expires every entry, and a request that began goes on to its answer.
Fairness ==
  /\ \A v \in Version : WF_vars(Expire(v))
  /\ \A r \in Reader : WF_vars(rpc[r] # "idle" /\ ReaderStep(r))

Spec == Init /\ [][Next]_vars /\ Fairness

------------------------------------------------------------------------------
(* Types: a tenant's version moves on at most once for each change, so the  *)
(* bound on changes bounds the versions, and keys are built from versions.  *)
TypeOK ==
  /\ leads \in Response
  /\ version \in Version \cup {0}
  /\ entry \in [Version -> SUBSET Response]
  /\ wpc \in [Writer -> {"idle", "committed", "read"}]
  /\ seen \in [Writer -> Version \cup {0}]
  /\ rpc \in [Reader -> {"idle", "unversioned", "added", "keyed", "missed", "queried", "answered"}]
  /\ key \in [Reader -> Version]
  /\ payload \in [Reader -> Response]
  /\ blind \in [Reader -> BOOLEAN]
  /\ change \in [Writer -> Response]
  /\ invalidated \in Response
  /\ due \in [Reader -> Response]

(* A list request that could read the version shows every change whose      *)
(* invalidation was over by then, whatever readers store late under older   *)
(* keys, and whatever those store that took the version for 1.              *)
InvalidatedChangesShow ==
  \A r \in Reader : rpc[r] = "answered" /\ ~blind[r] => payload[r] >= due[r]

(* The same of every list request: the entry that version 1 left behind      *)
(* breaks it, for up to a minute, when Redis fails at the version and is     *)
(* back for the entry.                                                       *)
AllInvalidatedChangesShow == \A r \in Reader : rpc[r] = "answered" => payload[r] >= due[r]

(* Once changes stop, every answer comes to show all of them, even where an *)
(* invalidation was skipped: entries are stored once, for a minute, and a   *)
(* hit does not prolong them.                                               *)
AnswersCatchUp == <>[](\A r \in Reader : rpc[r] = "answered" => payload[r] = leads)

==============================================================================
