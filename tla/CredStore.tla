----------------------------- MODULE CredStore -----------------------------
(***************************************************************************)
(* PerSubCredStore (src/src/auth/cred-store.ts): a cache in front of the   *)
(* external key-value store that holds one encrypted blob per subject      *)
(* (Workers KV behind kvOutbound of worker.ts, or a mounted volume).       *)
(*                                                                         *)
(* Calls run side by side in one process and are interleaved at their      *)
(* requests to the key-value store, which may fail, be carried out without *)
(* the caller learning of it, and overtake each other.                     *)
(***************************************************************************)
EXTENDS Naturals, FiniteSets

CONSTANTS Subs, Blobs, None,
          Trusted,      \* the blobs isValidCredentialPayload accepts
          Calls,        \* calls in flight at once (bound)
          MaxFaults,    \* bound on requests that fail
          MaxRestarts   \* bound on restarts of the container

ASSUME StoreBounds ==
  /\ None \notin Blobs
  /\ None \notin Subs
  /\ Trusted \subseteq Blobs
  /\ MaxFaults \in Nat
  /\ MaxRestarts \in Nat

VARIABLES
  kv,      \* the durable blob of each sub
  cache,   \* PerSubCredStore.cache
  call,    \* calls awaiting the key-value store
  faults, restarts,
  \* History, for the properties:
  last,    \* what the latest save or clear of a sub wrote
  saved,   \* the blobs ever saved for a sub
  raced    \* subs with a write that failed or overlapped another call

vars == <<kv, cache, call, faults, restarts, last, saved, raced>>

Stored == Blobs \cup {None}

\* put: a save or (val = None) a clear; get: a load that missed the cache; fill:
\* that load, with the blob it got.
Call == [pc : {"idle", "put", "get", "fill"}, sub : Subs \cup {None}, val : Stored]
Idle == [pc |-> "idle", sub |-> None, val |-> None]

\* Every variable has its type; a call in flight has a sub.
TypeOK ==
  /\ kv \in [Subs -> Stored]
  /\ cache \in [Subs -> Stored]
  /\ call \in [Calls -> Call]
  /\ \A c \in Calls : call[c].pc # "idle" => call[c].sub # None
  /\ faults \in 0 .. MaxFaults
  /\ restarts \in 0 .. MaxRestarts
  /\ last \in [Subs -> Stored]
  /\ saved \in [Subs -> SUBSET Blobs]
  /\ raced \subseteq Subs

Init ==
  /\ kv = [s \in Subs |-> None]
  /\ cache = [s \in Subs |-> None]
  /\ call = [c \in Calls |-> Idle]
  /\ faults = 0
  /\ restarts = 0
  /\ last = [s \in Subs |-> None]
  /\ saved = [s \in Subs |-> {}]
  /\ raced = {}

InFlight(s, pcs) == \E c \in Calls : call[c].pc \in pcs /\ call[c].sub = s

Fault ==
  /\ faults < MaxFaults
  /\ faults' = faults + 1

-----------------------------------------------------------------------------
(* save and clear: the cache at once, then the key-value store. *)

\* Mutant: save leaves the cache to the next load.
StartWriteThrough(c, s, b) ==
  /\ call[c].pc = "idle"
  /\ call' = [call EXCEPT ![c] = [pc |-> "put", sub |-> s, val |-> b]]
  /\ last' = [last EXCEPT ![s] = b]
  /\ saved' = IF b = None THEN saved ELSE [saved EXCEPT ![s] = @ \cup {b}]
  /\ raced' = IF InFlight(s, {"put", "get", "fill"}) THEN raced \cup {s} ELSE raced \ {s}
  /\ UNCHANGED <<kv, cache, faults, restarts>>

\* A write that starts while nothing else of its sub is in flight settles what an
\* earlier race or failure left behind.
StartWrite(c, s, b) ==
  /\ call[c].pc = "idle"
  /\ cache' = [cache EXCEPT ![s] = b]
  /\ call' = [call EXCEPT ![c] = [pc |-> "put", sub |-> s, val |-> b]]
  /\ last' = [last EXCEPT ![s] = b]
  /\ saved' = IF b = None THEN saved ELSE [saved EXCEPT ![s] = @ \cup {b}]
  /\ raced' = IF InFlight(s, {"put", "get", "fill"}) THEN raced \cup {s} ELSE raced \ {s}
  /\ UNCHANGED <<kv, faults, restarts>>

\* Mutant: the request is stored instead of its blob.
WriteRequest(c) ==
  /\ call[c].pc = "put"
  /\ kv' = [kv EXCEPT ![call[c].sub] = call[c]]
  /\ call' = [call EXCEPT ![c] = Idle]
  /\ UNCHANGED <<cache, faults, restarts, last, saved, raced>>

\* The store carries the request out.
Write(c) ==
  /\ call[c].pc = "put"
  /\ kv' = [kv EXCEPT ![call[c].sub] = call[c].val]
  /\ call' = [call EXCEPT ![c] = Idle]
  /\ UNCHANGED <<cache, faults, restarts, last, saved, raced>>

\* The call rejects; the cache keeps what it was given, and the store may or may
\* not have been written.
WriteFails(c, done) ==
  /\ call[c].pc = "put"
  /\ Fault
  /\ kv' = IF done THEN [kv EXCEPT ![call[c].sub] = call[c].val] ELSE kv
  /\ call' = [call EXCEPT ![c] = Idle]
  /\ raced' = raced \cup {call[c].sub}
  /\ UNCHANGED <<cache, restarts, last, saved>>

-----------------------------------------------------------------------------
(* load: a hit changes nothing; a miss fills the cache. *)

StartLoad(c, s) ==
  /\ call[c].pc = "idle"
  /\ cache[s] = None
  /\ call' = [call EXCEPT ![c] = [pc |-> "get", sub |-> s, val |-> None]]
  /\ raced' = IF InFlight(s, {"put"}) THEN raced \cup {s} ELSE raced
  /\ UNCHANGED <<kv, cache, faults, restarts, last, saved>>

\* Mutant: storeFor forgets the sub, and one key serves them all.
ReadAnyKey(c) ==
  /\ call[c].pc = "get"
  /\ \E s \in Subs : call' = [call EXCEPT ![c].pc = "fill", ![c].val = kv[s]]
  /\ UNCHANGED <<kv, cache, faults, restarts, last, saved, raced>>

Read(c) ==
  /\ call[c].pc = "get"
  /\ call' = [call EXCEPT ![c].pc = "fill", ![c].val = kv[call[c].sub]]
  /\ UNCHANGED <<kv, cache, faults, restarts, last, saved, raced>>

\* load answers null to a request that fails.
ReadFails(c) ==
  /\ call[c].pc = "get"
  /\ Fault
  /\ call' = [call EXCEPT ![c] = Idle]
  /\ UNCHANGED <<kv, cache, restarts, last, saved, raced>>

Fill(c) ==
  /\ call[c].pc = "fill"
  /\ cache' = IF call[c].val \in Trusted
                THEN [cache EXCEPT ![call[c].sub] = call[c].val] ELSE cache
  /\ call' = [call EXCEPT ![c] = Idle]
  /\ UNCHANGED <<kv, faults, restarts, last, saved, raced>>

\* The container goes away with its cache and its calls: what the store holds is
\* the truth again.
Restart ==
  /\ restarts < MaxRestarts
  /\ restarts' = restarts + 1
  /\ cache' = [s \in Subs |-> None]
  /\ call' = [c \in Calls |-> Idle]
  /\ last' = kv
  /\ raced' = {}
  /\ UNCHANGED <<kv, faults, saved>>

Next ==
  \/ \E c \in Calls, s \in Subs, b \in Stored : StartWrite(c, s, b)
  \/ \E c \in Calls, s \in Subs : StartLoad(c, s)
  \/ \E c \in Calls : Write(c) \/ Read(c) \/ ReadFails(c) \/ Fill(c)
  \/ \E c \in Calls, done \in BOOLEAN : WriteFails(c, done)
  \/ Restart

Spec == Init /\ [][Next]_vars

-----------------------------------------------------------------------------

\* Unless a write of a sub failed or overlapped another write or a cold load of
\* it, the store holds what was last written, and the cache holds the same or
\* nothing, however other subs' calls, cold loads of one sub and restarts
\* interleave: "write-through" as the header of cred-store.ts has it.  (A race
\* breaks it: a load that read the store before a save fills the cache after it.)
WrittenIsDurable ==
  \A s \in Subs : s \notin raced /\ ~InFlight(s, {"put"}) =>
    kv[s] = last[s] /\ cache[s] \in {None, kv[s]}

\* No race, failure or restart gives a sub a blob that was saved for another.
SubsIsolated ==
  \A s \in Subs : {kv[s], cache[s]} \subseteq saved[s] \cup {None}

=============================================================================
