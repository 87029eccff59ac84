------------------------------- MODULE UserDB -------------------------------
(***************************************************************************)
(* The authorized-client database (users.go) as operators over values.  A  *)
(* database is the set of its users together with a flag for the nil       *)
(* pointer the holder starts with when no user is configured; the slot     *)
(* counts (userEntry.active) are kept apart, as a function from user names *)
(* to numbers, because they belong to whoever owns the database.           *)
(*                                                                         *)
(* A client is its static public key: deriveClientID hashes the key and    *)
(* collisions of the truncated hash are not modelled.                      *)
(***************************************************************************)
EXTENDS Integers, Sequences, Functions

CONSTANTS
    Client,     \* static public keys, and so session ids
    Family,     \* the address families the server hands out
    NoUser,     \* the empty user name
    Names,      \* user names
    Unauthorized \* what the authorizer returns for a refused key

ASSUME UserNames == NoUser \notin Names /\ Unauthorized \notin Names \cup {NoUser}

UserType == [name : Names, key : Client, max : Nat, reserved : [Family -> Seq(Nat)]]

DBType == [nil : BOOLEAN, users : SUBSET UserType]

NilDB == [nil |-> TRUE, users |-> {}]

\* NewUserDB's checks, in any order: a failing one refuses the whole list.
ValidUsers(list) ==
    /\ \A i \in DOMAIN list :
         list[i].name \in Names /\ list[i].key \in Client /\ list[i].max >= 0
    /\ \A i, j \in DOMAIN list : i # j =>
         /\ list[i].name # list[j].name
         /\ list[i].key # list[j].key
         /\ \A f \in Family :
              Range(list[i].reserved[f]) \cap Range(list[j].reserved[f]) = {}

NewUserDB(list) == [nil |-> FALSE, users |-> Range(list)]

Empty(db) == db.users = {}

UserNamed(db, name) == CHOOSE u \in db.users : u.name = name

Known(db, name) == \E u \in db.users : u.name = name

\* LookupByKey when the database has users, else the single peer key.
AuthorizedName(db, peerKey, k) ==
    IF ~db.nil /\ ~Empty(db)
    THEN IF \E u \in db.users : u.key = k
         THEN (CHOOSE u \in db.users : u.key = k).name
         ELSE Unauthorized
    ELSE IF k = peerKey THEN NoUser ELSE Unauthorized

\* Mutant: the quota is not compared with the count.
CanAcquireSlotUnbounded(db, slots, name) == Known(db, name)

\* AcquireSlot fails with ErrUnknownUser or ErrQuotaExceeded.
CanAcquireSlot(db, slots, name) ==
    /\ Known(db, name)
    /\ LET max == UserNamed(db, name).max IN max > 0 => slots[name] < max

AcquireSlot(slots, name) == [slots EXCEPT ![name] = @ + 1]

ReleaseSlot(db, slots, name) ==
    IF Known(db, name) /\ slots[name] > 0
    THEN [slots EXCEPT ![name] = @ - 1]
    ELSE slots

\* The user that reserves address a of family f, or the empty name.
ReservationOwner(db, f, a) ==
    IF \E u \in db.users : a \in Range(u.reserved[f])
    THEN (CHOOSE u \in db.users : a \in Range(u.reserved[f])).name
    ELSE NoUser

\* No address is reserved by two users, as NewUserDB sees to.
ReservedOnce(db) ==
    \A u, v \in db.users, f \in Family :
      u # v => Range(u.reserved[f]) \cap Range(v.reserved[f]) = {}

ReservedFor(db, name, f) ==
    IF Known(db, name) THEN UserNamed(db, name).reserved[f] ELSE <<>>
=============================================================================
