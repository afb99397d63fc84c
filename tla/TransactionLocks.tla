--------------------------- MODULE TransactionLocks ---------------------------
(***************************************************************************)
(* libs/ui-components/src/transaction-lock-manager.ts: locks on            *)
(* transactions that expire, and the set of locks of each user.            *)
(*                                                                         *)
(* Every method runs without yielding and is one action.  A lock is kept   *)
(* as the time it has left, which LockTick counts down; 0 is expired.      *)
(* Metadata and the getters, which change nothing, are left out.           *)
(***************************************************************************)
EXTENDS Integers, FiniteSets

CONSTANTS
    Id,       \* transaction ids
    User,
    Ttl,      \* lifetimes of locks, in ticks
    MaxLocks  \* maxLocksPerUser

ASSUME LockAssumption == Ttl \subseteq Nat /\ MaxLocks \in Nat

VARIABLES
    locks,     \* Map locks: id -> time left
    userLocks  \* Map userLocks: user -> set of ids

lockVars == <<locks, userLocks>>

LockTypeOK ==
    /\ DOMAIN locks \subseteq Id
    /\ \A id \in DOMAIN locks : locks[id] \in Nat
    /\ DOMAIN userLocks \subseteq User
    /\ \A u \in DOMAIN userLocks : userLocks[u] \subseteq Id
------------------------------------------------------------------------------
Expired(id) == id \in DOMAIN locks /\ locks[id] = 0
Held(id) == id \in DOMAIN locks /\ locks[id] > 0

\* The two halves of removing locks: a user left without any loses the set.
\* An id is in at most one user's set (see OwnersMatchLocks), so the owner
\* that getUserIdForLock finds first is its only one.
Unlocked(ids) == [id \in DOMAIN locks \ ids |-> locks[id]]
Disowned(ids) ==
    [u \in {w \in DOMAIN userLocks : ~(userLocks[w] \subseteq ids)} |-> userLocks[u] \ ids]

Remove(ids) ==
    /\ locks' = Unlocked(ids)
    /\ userLocks' = Disowned(ids)

Owned(sets, u) == IF u \in DOMAIN sets THEN sets[u] ELSE {}

IsFull(sets, u) == Cardinality(Owned(sets, u)) >= MaxLocks

\* cleanExpiredUserLocks: what it takes from a user.
Stale(u) == {id \in Owned(userLocks, u) : ~Held(id)}

\* Mutant: the id's own expired lock is overwritten, not removed.
DroppedOthers(id, u) == IF IsFull(userLocks, u) THEN Stale(u) ELSE {}

\* acquireLock drops the id's own expired lock, then, if the user is at the
\* limit, all expired locks of that user.  A refused call has dropped them too.
Dropped(id, u) ==
    LET own == {i \in {id} : Expired(i)} IN
    own \cup IF IsFull(Disowned(own), u) THEN Stale(u) ELSE {}

AcquireRefused(id, u) ==
    /\ ~Held(id)
    /\ IsFull(Disowned(Dropped(id, u)), u)
    /\ Remove(Dropped(id, u))

AcquireGranted(id, u, ttl) ==
    LET left == Unlocked(Dropped(id, u))
        sets == Disowned(Dropped(id, u))
    IN /\ ~Held(id)
       /\ ~IsFull(sets, u)
       /\ locks' = [i \in DOMAIN left \cup {id} |-> IF i = id THEN ttl ELSE left[i]]
       /\ userLocks' = [w \in DOMAIN sets \cup {u} |->
                           IF w = u THEN Owned(sets, u) \cup {id} ELSE sets[w]]

\* Anyone may release any lock: also a holder whose lock has expired and
\* belongs to somebody else since.
ReleaseLock(id) == id \in DOMAIN locks /\ Remove({id})

IsLocked(id) == Expired(id) /\ Remove({id})

CanUserSubmit(u) == Stale(u) # {} /\ Remove(Stale(u))

CleanupAllExpiredLocks ==
    LET expired == {id \in DOMAIN locks : Expired(id)} IN
    expired # {} /\ Remove(expired)

ClearLocks ==
    /\ locks' = [id \in {} |-> 0]
    /\ userLocks' = [u \in {} |-> {}]

LockTick ==
    /\ locks' = [id \in DOMAIN locks |-> IF Expired(id) THEN 0 ELSE locks[id] - 1]
    /\ UNCHANGED userLocks

LockInit ==
    /\ locks = [id \in {} |-> 0]
    /\ userLocks = [u \in {} |-> {}]

LockNext ==
    \/ \E id \in Id, u \in User :
          \/ AcquireRefused(id, u)
          \/ \E ttl \in Ttl : AcquireGranted(id, u, ttl)
    \/ \E id \in Id : ReleaseLock(id) \/ IsLocked(id)
    \/ \E u \in User : CanUserSubmit(u)
    \/ CleanupAllExpiredLocks
    \/ ClearLocks
    \/ LockTick

LockSpec == LockInit /\ [][LockNext]_lockVars
------------------------------------------------------------------------------
\* The two maps tell one story: every lock is in the set of exactly one user,
\* nobody has a set of locks that no longer exist, and no user has more than
\* the limit.  A leftover in a set would use up the user's limit for good, a
\* lock in no set would escape it (removeLock, lines 190-212, and the
\* cleaning of lines 229-251, which takes ids out of both maps itself).
OwnersMatchLocks ==
    /\ \A id \in DOMAIN locks : \E u \in DOMAIN userLocks : id \in userLocks[u]
    /\ \A u \in DOMAIN userLocks :
          /\ userLocks[u] # {} /\ userLocks[u] \subseteq DOMAIN locks
          /\ Cardinality(userLocks[u]) <= MaxLocks
    /\ \A u, w \in DOMAIN userLocks : userLocks[u] \cap userLocks[w] # {} => u = w
==============================================================================
