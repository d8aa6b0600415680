------------------------------- MODULE Accounts -------------------------------
(***************************************************************************)
(* PATCH /me and GET /me (api/v1/users.py): one call is a chain of checks  *)
(* and transactions, with other calls, the admin panel and the venue       *)
(* script between them:                                                    *)
(*                                                                         *)
(*   begin -> venue -> avatar -> profile -> display -> bind                *)
(*         -> code -> { try } -> reread -> idle                            *)
(*                                                                         *)
(* A call without fields is GET /me.  The coins a bind may settle are the  *)
(* subject of Economy.                                                     *)
(***************************************************************************)
EXTENDS Integers

CONSTANTS
  Players, Calls,
  Names,          \* nicknames as players see them
  Key,            \* their folded keys (parse_nickname)
  Reserved,       \* names that parse_nickname and is_reserved_name refuse
  Venues, Avatars,
  ReferralCodes,  \* what generate_referral_code may return
  Attempts,       \* 5
  Updates,        \* payloads: [nickname, terms, venue, avatar, display, referrer],
                  \* None for a field not sent
  Current, Outdated,  \* the server's TERMS_VERSION and another
  None

Refusals == {"NICKNAME_INVALID", "NICKNAME_TAKEN", "DISPLAY_NAME_RESERVED",
             "TERMS_VERSION_INVALID", "CATALOGUE_UNKNOWN", "AVATAR_LOCKED",
             "REFERRAL_CODE_UNKNOWN", "REFERRAL_SELF", "REFERRAL_ALREADY_BOUND",
             "REFERRAL_CODE_TOO_LATE", "INTERNAL_ERROR"}

AccountsAssumption ==
  /\ None \notin Players \cup Names \cup ReferralCodes \cup Refusals
  /\ DOMAIN Key = Names /\ Reserved \subseteq Names
  /\ Attempts \in Nat \ {0}
  /\ Updates \subseteq [nickname : Names \cup {None},
                        terms : {Current, Outdated, None},
                        venue : Venues \cup {None}, avatar : Avatars \cup {None},
                        display : Names \cup {None},
                        referrer : ReferralCodes \cup {None}]

VARIABLES
  users,     \* what is read back of the rows: [nickname, code, inviter]
  redeemed,  \* players who have redeemed a code
  pickable,  \* venues and avatars that are active, and avatars unlocked
  calls,
  answers    \* history: [user, code] that some answer has shown

vars == <<users, redeemed, pickable, calls, answers>>

Blank == [nickname |-> None, code |-> None, inviter |-> None]
Idle == [todo |-> {}, user |-> None, payload |-> None, tries |-> 0]

\* The order of the steps; the last two follow only if there is no code yet.
Chain == [venue |-> 1, avatar |-> 2, profile |-> 3, display |-> 4, bind |-> 5, code |-> 6,
          try |-> 7, reread |-> 8]
Allocating == {"try", "reread"}

\* What a payload needs of the chain: only the fields sent.
Wanted(p, at) ==
  CASE at = "venue" -> p.venue # None
    [] at = "avatar" -> p.avatar # None
    [] at = "profile" -> \E field \in {"nickname", "terms", "venue", "avatar"} : p[field] # None
    [] at = "display" -> p.display # None
    [] at = "bind" -> p.referrer # None
    [] at = "code" -> TRUE

IsIdle(c) == calls[c].todo = {}
At(c, step) ==
  step \in calls[c].todo /\ \A other \in calls[c].todo : Chain[step] <= Chain[other]
Finish(c, step) == calls' = [calls EXCEPT ![c].todo = @ \ {step}]
\* What a call is refused with is in the answer and nowhere else.
Refuse(c, reason) == reason \in Refusals /\ calls' = [calls EXCEPT ![c] = Idle]

Payload(c) == calls[c].payload
User(c) == calls[c].user

-----------------------------------------------------------------------------
(* ProfileService.update                                                   *)

\* parse_nickname and the terms are judged before anything is read.
Begin(c, u, p) ==
  /\ IsIdle(c)
  /\ IF p.nickname \in Reserved THEN Refuse(c, "NICKNAME_INVALID")
     ELSE IF p.terms \notin {None, Current} THEN Refuse(c, "TERMS_VERSION_INVALID")
     ELSE calls' = [calls EXCEPT ![c] =
            [todo |-> {at \in DOMAIN Chain \ Allocating : Wanted(p, at)},
             user |-> u, payload |-> p, tries |-> 0]]
  /\ UNCHANGED <<users, redeemed, pickable, answers>>

CheckVenue(c) ==
  /\ At(c, "venue")
  /\ IF Payload(c).venue \in pickable.active
     THEN Finish(c, "venue") ELSE Refuse(c, "CATALOGUE_UNKNOWN")
  /\ UNCHANGED <<users, redeemed, pickable, answers>>

CheckAvatar(c) ==
  /\ At(c, "avatar")
  /\ IF Payload(c).avatar \notin pickable.active THEN Refuse(c, "CATALOGUE_UNKNOWN")
     ELSE IF Payload(c).avatar \notin pickable.unlocked THEN Refuse(c, "AVATAR_LOCKED")
     ELSE Finish(c, "avatar")
  /\ UNCHANGED <<users, redeemed, pickable, answers>>

\* Mutant: names are compared as they are written.
TakenKey_Exact(u, name) == \E v \in Players \ {u} : users[v].nickname = name
\* The unique constraint on nickname_key.
TakenKey(u, name) ==
  \E v \in Players \ {u} : users[v].nickname # None /\ Key[users[v].nickname] = Key[name]

\* update_profile: the fields sent, in one statement.
WriteProfile(c) ==
  LET u == User(c)
      name == Payload(c).nickname IN
  /\ At(c, "profile")
  /\ IF name # None /\ TakenKey(u, name)
     THEN Refuse(c, "NICKNAME_TAKEN") /\ UNCHANGED users
     ELSE /\ Finish(c, "profile")
          /\ users' = IF name = None THEN users ELSE [users EXCEPT ![u].nickname = name]
  /\ UNCHANGED <<redeemed, pickable, answers>>

-----------------------------------------------------------------------------
(* The other transactions of the handler                                   *)

\* set_display_name, in a transaction of its own.
WriteDisplay(c) ==
  /\ At(c, "display")
  /\ IF Payload(c).display \in Reserved
     THEN Refuse(c, "DISPLAY_NAME_RESERVED") ELSE Finish(c, "display")
  /\ UNCHANGED <<users, redeemed, pickable, answers>>

Holder(code) == {v \in Players : users[v].code = code /\ code # None}

\* ReferralService.bind, in check_can_bind's order.
BindProblem(u, code) ==
  IF Holder(code) = {} THEN "REFERRAL_CODE_UNKNOWN"
  ELSE IF Holder(code) = {u} THEN "REFERRAL_SELF"
  ELSE IF users[u].inviter # None THEN "REFERRAL_ALREADY_BOUND"
  ELSE IF u \in redeemed THEN "REFERRAL_CODE_TOO_LATE"
  ELSE None

Bind(c) ==
  LET u == User(c)
      code == Payload(c).referrer IN
  /\ At(c, "bind")
  /\ IF BindProblem(u, code) # None
     THEN Refuse(c, BindProblem(u, code)) /\ UNCHANGED users
     ELSE /\ users' = [users EXCEPT ![u].inviter = CHOOSE v \in Holder(code) : TRUE]
          /\ Finish(c, "bind")
  /\ UNCHANGED <<redeemed, pickable, answers>>

-----------------------------------------------------------------------------
(* ensure_referral_code                                                    *)

Answer(c, code) ==
  /\ calls' = [calls EXCEPT ![c] = Idle]
  /\ answers' = answers \cup {[user |-> User(c), code |-> code]}

ReadCode(c) ==
  /\ At(c, "code")
  /\ IF users[User(c)].code # None
     THEN Answer(c, users[User(c)].code)
     ELSE /\ calls' = [calls EXCEPT ![c].todo = Allocating, ![c].tries = Attempts]
          /\ UNCHANGED answers
  /\ UNCHANGED <<users, redeemed, pickable>>

\* Mutant: the update does not ask whether the player has a code by now.
Unset_Any(u) == TRUE
\* WHERE referral_code IS NULL
Unset(u) == users[u].code = None

\* A candidate somebody else has is an IntegrityError, and a try is gone.
TryCode(c) ==
  LET u == User(c) IN
  /\ At(c, "try")
  /\ \E candidate \in ReferralCodes :
       LET clash == Unset(u) /\ Holder(candidate) \notin {{}, {u}} IN
       /\ users' = IF Unset(u) /\ ~clash THEN [users EXCEPT ![u].code = candidate]
                                         ELSE users
       /\ IF ~clash THEN Finish(c, "try")
          ELSE IF calls[c].tries = 1 THEN Refuse(c, "INTERNAL_ERROR")
          ELSE calls' = [calls EXCEPT ![c].tries = @ - 1]
  /\ UNCHANGED <<redeemed, pickable, answers>>

Reread(c) ==
  /\ At(c, "reread")
  /\ Answer(c, users[User(c)].code)
  /\ UNCHANGED <<users, redeemed, pickable>>

-----------------------------------------------------------------------------
(* Around the calls                                                        *)

\* The process died, or the database did not answer.
Forget(c) ==
  /\ ~IsIdle(c)
  /\ Refuse(c, "INTERNAL_ERROR")
  /\ UNCHANGED <<users, redeemed, pickable, answers>>

\* scripts/venues.py deactivate, and the avatars' form of the admin panel.
DeactivateVenue(v) ==
  /\ v \in pickable.active
  /\ pickable' = [pickable EXCEPT !.active = @ \ {v}]
  /\ UNCHANGED <<users, redeemed, calls, answers>>

EditAvatar(a) ==
  /\ \E shown, open \in BOOLEAN :
       pickable' = [active |-> IF shown THEN pickable.active \cup {a}
                                        ELSE pickable.active \ {a},
                    unlocked |-> IF open THEN pickable.unlocked \cup {a}
                                         ELSE pickable.unlocked \ {a}]
  /\ UNCHANGED <<users, redeemed, calls, answers>>

RedeemFirst(u) ==
  /\ redeemed' = redeemed \cup {u}
  /\ UNCHANGED <<users, pickable, calls, answers>>

Init ==
  /\ users = [u \in Players |-> Blank]
  /\ redeemed = {}
  /\ pickable = [active |-> Venues \cup Avatars, unlocked |-> Avatars]
  /\ calls = [c \in Calls |-> Idle]
  /\ answers = {}

Next ==
  \/ \E c \in Calls :
       \/ \E u \in Players, p \in Updates : Begin(c, u, p)
       \/ CheckVenue(c) \/ CheckAvatar(c) \/ WriteProfile(c) \/ WriteDisplay(c)
       \/ Bind(c) \/ ReadCode(c) \/ TryCode(c) \/ Reread(c) \/ Forget(c)
  \/ \E v \in Venues : DeactivateVenue(v)
  \/ \E a \in Avatars : EditAvatar(a)
  \/ \E u \in Players : RedeemFirst(u)

Spec == Init /\ [][Next]_vars

-----------------------------------------------------------------------------
(* Properties                                                              *)

TypeOK ==
  /\ \A u \in Players :
       /\ users[u].nickname \in Names \cup {None} /\ users[u].code \in ReferralCodes \cup {None}
       /\ users[u].inviter \in Players \cup {None}
  /\ redeemed \subseteq Players
  /\ pickable.active \subseteq Venues \cup Avatars /\ pickable.unlocked \subseteq Avatars
  /\ \A c \in Calls : calls[c].todo \subseteq DOMAIN Chain

\* A referral code that one answer has shown is the player's for good: it is
\* what is stored now, and it leads to nobody else (ensure_referral_code,
\* get_by_referral_code), however many calls allocate it at once.
AnsweredCodesStand ==
  \A a \in answers : Holder(a.code) = {a.user}

\* No two players are told apart only by spelling (nickname_key, unique).
NamesAreUnique ==
  \A u, v \in Players :
    u # v /\ users[u].nickname # None /\ users[v].nickname # None =>
      Key[users[u].nickname] # Key[users[v].nickname]
=============================================================================
