-------------------------------- MODULE Lists --------------------------------
(***************************************************************************)
(* The admin's list of users, newest first, page by page, while people     *)
(* sign in for the first time (api/v1/admin.py, application/admin_users.py,*)
(* PostgreSQLUserRepository.create and list_page).                         *)
(*                                                                         *)
(* A cursor is the (created_at, id) of the last user of a page; its text   *)
(* form loses nothing of either.  created_at is taken before the row is    *)
(* inserted, so rows may appear in another order than their times.         *)
(***************************************************************************)
EXTENDS Integers, FiniteSets, Sequences, SequencesExt, Functions

CONSTANTS
  Phones,     \* identifiers of first sign-ins
  SignIns,    \* concurrent first sign-ins
  Limit,      \* users per page
  MaxMoment,  \* bound of the clock
  Top         \* no cursor: the first page

ListsAssumption ==
  /\ Limit \in Nat \ {0} /\ MaxMoment \in Nat
  /\ Top \notin [id : Nat, identifier : Phones, created : Nat]

VARIABLES
  now,
  rows,      \* users: [id, identifier, created]
  signins,   \* [at, identifier, created, id]
  walk       \* the admin's walk: [at, cursor, shown, before]

vars == <<now, rows, signins, walk>>

Idle == [at |-> "idle", identifier |-> Top, created |-> 0, id |-> 0]
Resting == [at |-> "idle", cursor |-> Top, shown |-> <<>>, before |-> {}]

Tick ==
  /\ now < MaxMoment
  /\ now' = now + 1
  /\ UNCHANGED <<rows, signins, walk>>

\* request_code finds no user with the number and takes the time.  Ids are
\* random: any that no row has.
Stamp(s, phone) ==
  /\ signins[s].at = "idle" /\ \A r \in rows : r.identifier # phone
  /\ \E id \in 1..Cardinality(SignIns) :
       /\ \A r \in rows : r.id # id
       /\ \A t \in SignIns : signins[t].id # id
       /\ signins' = [signins EXCEPT ![s] =
            [at |-> "create", identifier |-> phone, created |-> now, id |-> id]]
  /\ UNCHANGED <<now, rows, walk>>

\* create: the identifier is unique; who comes second gets the first one's row.
Create(s) ==
  LET mine == [id |-> signins[s].id, identifier |-> signins[s].identifier,
               created |-> signins[s].created] IN
  /\ signins[s].at = "create"
  /\ rows' = IF \E r \in rows : r.identifier = mine.identifier THEN rows
             ELSE rows \cup {mine}
  /\ signins' = [signins EXCEPT ![s] = Idle]
  /\ UNCHANGED <<now, walk>>

-----------------------------------------------------------------------------
(* The walk                                                                *)

\* ORDER BY created_at DESC, id DESC, and the rows strictly after a cursor.
Older(r, c) == r.created < c.created \/ (r.created = c.created /\ r.id < c.id)

Newest(set) ==
  CHOOSE list \in [1..Cardinality(set) -> set] :
    \A m, n \in DOMAIN list : m < n => Older(list[n], list[m])

\* Mutant: the next page begins after the row that only says there is one.
Page_Peeked(cursor) ==
  LET after == Newest(IF cursor = Top THEN rows ELSE {r \in rows : Older(r, cursor)})
      items == SubSeq(after, 1, IF Len(after) < Limit THEN Len(after) ELSE Limit)
  IN [items |-> items, next |-> IF Len(after) > Limit THEN after[Limit + 1] ELSE Top]

\* list_page(limit + 1): one row more says whether there is another page.
Page(cursor) ==
  LET after == Newest(IF cursor = Top THEN rows ELSE {r \in rows : Older(r, cursor)})
      items == SubSeq(after, 1, IF Len(after) < Limit THEN Len(after) ELSE Limit)
  IN [items |-> items, next |-> IF Len(after) > Limit THEN Last(items) ELSE Top]

\* list_users, from the first page or from a cursor a page has given.
ListUsers ==
  LET page == Page(walk.cursor) IN
  /\ walk.at # "done" /\ rows # {}
  /\ walk' = [at |-> IF page.next = Top THEN "done" ELSE "walking",
              cursor |-> page.next, shown |-> walk.shown \o page.items,
              before |-> IF walk.at = "idle" THEN rows ELSE walk.before]
  /\ UNCHANGED <<now, rows, signins>>

Again ==
  /\ walk.at = "done"
  /\ walk' = Resting
  /\ UNCHANGED <<now, rows, signins>>

Init == now = 0 /\ rows = {} /\ signins = [s \in SignIns |-> Idle] /\ walk = Resting

Next ==
  \/ Tick
  \/ \E s \in SignIns : (\E p \in Phones : Stamp(s, p)) \/ Create(s)
  \/ ListUsers \/ Again

Spec == Init /\ [][Next]_vars

-----------------------------------------------------------------------------
(* Properties                                                              *)

TypeOK ==
  /\ now \in 0..MaxMoment
  /\ \A r \in rows : r.identifier \in Phones /\ r.created \in 0..now
  /\ walk.at \in {"idle", "walking", "done"}
  /\ walk.cursor # Top => walk.cursor \in rows

\* A walk through the pages is exact whoever signs in meanwhile: nobody is
\* shown twice, the order never turns, and who had an account when the walk
\* began has been shown when it ends ("keyset, stable under inserts").
PagesAreExact ==
  /\ IsInjective(walk.shown)
  /\ \A m, n \in DOMAIN walk.shown : m < n => Older(walk.shown[n], walk.shown[m])
  /\ walk.at = "done" => walk.before \subseteq Range(walk.shown)

\* One account per number, however many first sign-ins run at once.
OneAccountPerNumber ==
  \A r, s \in rows : r.identifier = s.identifier => r = s
=============================================================================
