------------------------- MODULE GuestSessionHistory -------------------------
(***************************************************************************)
(* The history of one guest in Redis: every operation reads the whole      *)
(* store, changes it and writes it back, under the gateway runtime's       *)
(* action lock, a key with a life of its own.  The lock may run out under  *)
(* its holder, and a writer that waited too long goes on without it.       *)
(***************************************************************************)
EXTENDS Integers, Sequences

CONSTANTS
    Writers, First, NoConversation, MaxMessages,    \* see GuestHistoryStore
    NoWriter        \* nobody holds the lock

ASSUME HistoryAssumption ==
    /\ NoWriter \notin Writers
    /\ MaxMessages \in Nat \ {0}

VARIABLES
    store,      \* the value of the guest-session key
    at,         \* where each operation is
    operation,  \* what it does
    snapshot,   \* the store it has read
    lock,       \* the token in the lock's key
    inTime,     \* writers within the life of the lock they were given
    lapsed      \* history variable: a write was made without the lock

historyVars == <<store, at, operation, snapshot, lock, inTime, lapsed>>

H == INSTANCE GuestHistoryStore WITH history <- store, spoiled <- lapsed

NoOperation == [kind |-> "create", conversation |-> NoConversation, from |-> First]

HistoryTypeOK ==
    /\ store \in H!History
    /\ at \in [Writers -> {"idle", "locking", "reading", "writing", "releasing", "done"}]
    /\ operation \in [Writers -> H!Operation]
    /\ snapshot \in [Writers -> H!History]
    /\ lock \in Writers \union {NoWriter}
    /\ inTime \subseteq Writers
    /\ lapsed \in BOOLEAN

HistoryInit ==
    /\ store \in {H!EmptyStore, [H!EmptyStore EXCEPT !.conversation = First]}
    /\ at = [w \in Writers |-> "idle"]
    /\ operation = [w \in Writers |-> NoOperation]
    /\ snapshot = [w \in Writers |-> H!EmptyStore]
    /\ lock = NoWriter
    /\ inTime = {}
    /\ lapsed = FALSE

Move(w, place) == at' = [at EXCEPT ![w] = place]

\* The callback's locals end with it.
Forget(w) ==
    /\ snapshot' = [snapshot EXCEPT ![w] = H!EmptyStore]
    /\ operation' = [operation EXCEPT ![w] = NoOperation]

\* What a browser may ask for: it knows the conversation and messages it saw.
Requests ==
    [kind : {"create", "clear"}, conversation : {NoConversation}, from : {First}]
    \union [kind : {"append", "delete", "rename"}, conversation : {store.conversation},
            from : {First}]
    \union [kind : {"truncate"}, conversation : {store.conversation},
            from : {store.messages[i] : i \in DOMAIN store.messages}]

Ask(w) ==
    /\ at[w] = "idle"
    /\ \E op \in Requests : operation' = [operation EXCEPT ![w] = op]
    /\ Move(w, "locking")
    /\ UNCHANGED <<store, snapshot, lock, inTime, lapsed>>

\* SET NX PX.
TakeLock(w) ==
    /\ at[w] = "locking"
    /\ lock = NoWriter
    /\ lock' = w
    /\ inTime' = inTime \union {w}
    /\ Move(w, "reading")
    /\ UNCHANGED <<store, operation, snapshot, lapsed>>

\* Ten seconds of asking.  "A final best-effort write": it runs without the lock.
GoUnlocked(w) ==
    /\ at[w] = "locking"
    /\ lock # NoWriter
    /\ Move(w, "reading")
    /\ UNCHANGED <<store, operation, snapshot, lock, inTime, lapsed>>

\* clear does not read; what it writes depends on no snapshot.
ReadStore(w) ==
    /\ at[w] = "reading"
    /\ IF H!Applies(operation[w], store)
       THEN /\ snapshot' = [snapshot EXCEPT ![w] = store]
            /\ Move(w, "writing")
            /\ UNCHANGED operation
       ELSE Forget(w) /\ Move(w, "releasing")
    /\ UNCHANGED <<store, lock, inTime, lapsed>>

WriteStore(w) ==
    /\ at[w] = "writing"
    /\ store' = H!Effect(operation[w], w, snapshot[w])
    /\ lapsed' = (lapsed \/ w \notin inTime)
    /\ Forget(w)
    /\ Move(w, "releasing")
    /\ UNCHANGED <<lock, inTime>>

\* Redis refuses a call of w; the finally block runs all the same.
CallFails(w) ==
    /\ at[w] \in {"reading", "writing"}
    /\ Forget(w)
    /\ Move(w, "releasing")
    /\ UNCHANGED <<store, lock, inTime, lapsed>>

\* Mutant: the lock's key is deleted whoever's token it holds.
DropLock(w) == NoWriter

\* CACHE_UNLOCK_SCRIPT: only the own token is deleted.
Unlock(w) == IF lock = w THEN NoWriter ELSE lock

\* The script's failure is swallowed and leaves the key to expire.
ReleaseLock(w) ==
    /\ at[w] = "releasing"
    /\ lock' \in {Unlock(w), lock}
    /\ inTime' = inTime \ {w}
    /\ Move(w, "done")
    /\ UNCHANGED <<store, operation, snapshot, lapsed>>

\* The replica that serves w dies, or refuses it while it waits for the lock.
WriterDies(w) ==
    /\ at[w] \in {"locking", "reading", "writing", "releasing"}
    /\ Forget(w)
    /\ Move(w, "done")
    /\ UNCHANGED <<store, lock, inTime, lapsed>>

\* The life of the lock w was given runs out; its key is gone if it still is w's.
LockRunsOut(w) ==
    /\ w \in inTime \/ lock = w
    /\ inTime' = inTime \ {w}
    /\ lock' = IF lock = w THEN NoWriter ELSE lock
    /\ UNCHANGED <<store, at, operation, snapshot, lapsed>>

HistoryNext == \E w \in Writers :
    \/ Ask(w) \/ TakeLock(w) \/ GoUnlocked(w) \/ ReadStore(w) \/ WriteStore(w)
    \/ CallFails(w) \/ ReleaseLock(w) \/ WriterDies(w) \/ LockRunsOut(w)

HistorySpec == HistoryInit /\ [][HistoryNext]_historyVars

(***************************************************************************)
(* Properties                                                              *)
(***************************************************************************)
\* As long as every write was made by a holder within its lock's life, each
\* operation took effect at once: no message of another tab, replica or voice
\* turn was lost, and nothing cleared, deleted or truncated came back.
AtomicWhileLocked == H!StoreSpec
=============================================================================
