---------------------------- MODULE SignInProofs ----------------------------
(***************************************************************************)
(* Theorems about SignIn, for every set of phones and tokens, any number   *)
(* of concurrent calls, every setting and every length of the clock:       *)
(* first what a sign-in may trust, then the limits.                        *)
(*                                                                         *)
(* A call checks a limit in one transaction and adds to what is counted in *)
(* another, so the limits themselves do not hold.  What holds is a bound   *)
(* on what is counted together with what is on its way: at a check that    *)
(* passes less than the limit is counted and at most every call is on its  *)
(* way, and every later step only turns the one into the other.            *)
(***************************************************************************)
EXTENDS SignIn, FiniteSetTheorems, TLAPS

-----------------------------------------------------------------------------
(* The inductive invariant                                                 *)

\* What a call knows at each of its steps, and no later step of another call
\* can take from it.
Calling == {"find", "create", "cooldown", "limit", "send", "persist",
            "account", "active", "wrong", "consume", "verified", "open", "user"}
Trying == {"active", "wrong", "consume", "verified", "open"}
Chosen == {"wrong", "consume", "verified", "open"}
Won == {"verified", "open"}

CallShape ==
  \A r \in Calls :
    /\ call[r].at \in Calling => call[r].phone \in Phones
    /\ call[r].at \in Trying =>
         /\ account[call[r].phone] # "absent"
         /\ call[r].known => verified[call[r].phone]
    /\ call[r].at \in Chosen =>
         call[r].challenge \in Challenges /\ owner[call[r].challenge] = call[r].phone
    /\ call[r].at = "open" => verified[call[r].phone]
    /\ call[r].at \in {"token", "user"} =>
         call[r].token \in Tokens /\ holder[call[r].token] # NoPhone
    /\ call[r].at = "user" => call[r].phone = holder[call[r].token]

\* A code on its way into the table is nobody else's.
InFlight ==
  \A r \in Calls : call[r].at = "persist" =>
    /\ call[r].challenge \in Challenges
    /\ call[r].challenge \in sent
    /\ owner[call[r].challenge] = NoPhone
    /\ \A s \in Calls \ {r} : call[s].at = "persist" => call[s].challenge # call[r].challenge

\* A code that was just used is one call's, and has opened no session yet.
Winner ==
  \A r \in Calls : call[r].at \in Won =>
    /\ consumed[call[r].challenge]
    /\ \A s \in Calls \ {r} : call[s].at \in Won => call[s].challenge # call[r].challenge
    /\ \A t \in Tokens : opened[t] # call[r].challenge

\* The sessions that are open, and those that are not.
Sessions ==
  \A t \in Tokens :
    IF holder[t] = NoPhone
    THEN opened[t] = NoChallenge
    ELSE opened[t] \in Challenges /\ account[holder[t]] # "absent"

\* A call that was refused at its beginning still has its reason.
Denied ==
  \A r \in Calls : refused[r] =>
    /\ call[r].at = "token" =>
         \/ ~Alive(call[r].token, call[r].now)
         \/ account[holder[call[r].token]] = "inactive"
    /\ call[r].at = "user" => account[call[r].phone] = "inactive"
    /\ call[r].at # "touch"

IInv ==
  /\ TypeOK /\ CallShape /\ InFlight /\ Winner /\ Sessions
  /\ StoredWasDelivered /\ SessionsAreEarned /\ Denied

LEMMA TimesType == Times \subseteq Nat /\ 0 \in Times
  BY SignInAssumption DEF Times

Records ==
  [at : Labels, phone : Phones \cup {NoPhone}, now : Times,
   code : Challenges \cup {Wrong, NoChallenge},
   challenge : Challenges \cup {NoChallenge},
   known : BOOLEAN, token : Tokens \cup {NoToken}, served : BOOLEAN]

LEMMA IdleType == \A served \in BOOLEAN : Idle(served) \in Records
  BY TimesType DEF Idle, Labels, Records

LEMMA InitIInv == Init => IInv
<1> SUFFICES ASSUME Init PROVE IInv
  OBVIOUS
<1>1. TypeOK
  BY TimesType, IdleType DEF Init, TypeOK, Records
<1>2. CallShape /\ InFlight /\ Winner /\ Denied
  BY DEF Init, CallShape, InFlight, Winner, Denied, Idle, Calling, Trying, Chosen, Won
<1>3. Sessions /\ StoredWasDelivered /\ SessionsAreEarned
  BY DEF Init, Sessions, StoredWasDelivered, SessionsAreEarned
<1> QED
  BY <1>1, <1>2, <1>3 DEF IInv

-----------------------------------------------------------------------------
(* A call moves on and the tables stay                                     *)

\* A call that ends, whatever it leaves behind, takes no promise with it.
LEMMA EndCall ==
  ASSUME IInv, NEW r \in Calls, NEW served \in BOOLEAN,
         call' = [call EXCEPT ![r] = Idle(served)],
         UNCHANGED <<tables, clock, refused>>
  PROVE  IInv'
<1> USE DEF IInv
<1>1. TypeOK'
  BY IdleType DEF TypeOK, tables, Records
<1>2. /\ call'[r].at = "idle"
      /\ \A s \in Calls \ {r} : call'[s] = call[s]
  BY DEF TypeOK, Idle
<1>3. CallShape'
  BY <1>2 DEF CallShape, tables, Calling, Trying, Chosen
<1>4. InFlight' /\ Winner'
  BY <1>2 DEF InFlight, Winner, tables, Won
<1>5. Denied'
  BY <1>2 DEF Denied, Alive, tables
<1>6. Sessions' /\ StoredWasDelivered' /\ SessionsAreEarned'
  BY DEF Sessions, StoredWasDelivered, SessionsAreEarned, tables
<1> QED
  BY <1>1, <1>3, <1>4, <1>5, <1>6


\* A call that reads, and knows at its next step what that step requires.
LEMMA MoveCall ==
  ASSUME IInv, NEW r \in Calls, NEW x \in Records, call' = [call EXCEPT ![r] = x],
         UNCHANGED <<tables, clock, refused>>,
         x.at \notin Won \cup {"persist"},
         x.at \in Calling => x.phone \in Phones,
         x.at \in Trying =>
           account[x.phone] # "absent" /\ (x.known => verified[x.phone]),
         x.at \in Chosen => x.challenge \in Challenges /\ owner[x.challenge] = x.phone,
         x.at \in {"token", "user"} => x.token \in Tokens /\ holder[x.token] # NoPhone,
         x.at = "user" => x.phone = holder[x.token],
         refused[r] =>
           /\ x.at # "token"
           /\ x.at = "user" => account[x.phone] = "inactive"
           /\ x.at # "touch"
  PROVE  IInv'
<1> USE DEF IInv
<1>1. TypeOK'
  BY DEF TypeOK, Records, tables
<1>2. call'[r] = x /\ \A s \in Calls \ {r} : call'[s] = call[s]
  BY DEF TypeOK
<1>3. CallShape'
  <2>1. \A s \in Calls \ {r} :
          /\ call'[s].at \in Calling => call'[s].phone \in Phones
          /\ call'[s].at \in Trying =>
               /\ account[call'[s].phone] # "absent"
               /\ call'[s].known => verified[call'[s].phone]
          /\ call'[s].at \in Chosen =>
               call'[s].challenge \in Challenges /\ owner[call'[s].challenge] = call'[s].phone
          /\ call'[s].at = "open" => verified[call'[s].phone]
          /\ call'[s].at \in {"token", "user"} =>
               call'[s].token \in Tokens /\ holder[call'[s].token] # NoPhone
          /\ call'[s].at = "user" => call'[s].phone = holder[call'[s].token]
    BY <1>2 DEF CallShape
  <2> QED
    BY <2>1 DEF CallShape, tables, Won
<1>4. InFlight' /\ Winner'
  BY <1>2 DEF InFlight, Winner, tables
<1>5. Denied'
  BY <1>2 DEF Denied, Alive, tables
<1>6. Sessions' /\ StoredWasDelivered' /\ SessionsAreEarned'
  BY DEF Sessions, StoredWasDelivered, SessionsAreEarned, tables
<1> QED
  BY <1>1, <1>3, <1>4, <1>5, <1>6

LEMMA FindStep ==
  ASSUME IInv, NEW r \in Calls, Find(r)
  PROVE  IInv'
<1> USE DEF IInv
<1>1. CASE Serve(r)
  BY <1>1, EndCall DEF Serve, Find
<1>2. ASSUME NEW label \in {"create", "cooldown"}, Goto(r, label)
      PROVE  IInv'
  <2> DEFINE x == [call[r] EXCEPT !.at = label]
  <2>1. call' = [call EXCEPT ![r] = x]
    BY <1>2 DEF Goto, TypeOK
  <2>2. x \in Records /\ UNCHANGED <<tables, clock, refused>>
    BY <2>1, ZenonT(40) DEF TypeOK, Find, Labels, Records
  <2>3. x.at = label /\ x.phone = call[r].phone /\ call[r].phone \in Phones
    BY DEF TypeOK, Find, CallShape, Calling
  <2> QED
    BY <2>1, <2>2, <2>3, MoveCall DEF Find, Won, Trying, Chosen
<1> QED
  BY <1>1, <1>2 DEF Find

LEMMA CheckCooldownStep ==
  ASSUME IInv, NEW r \in Calls, CheckCooldown(r)
  PROVE  IInv'
<1> USE DEF IInv
<1>1. CASE Refuse(r)
  BY <1>1, EndCall DEF Refuse, CheckCooldown
<1>2. CASE Goto(r, "limit")
  <2> DEFINE x == [call[r] EXCEPT !.at = "limit"]
  <2>1. call' = [call EXCEPT ![r] = x]
    BY <1>2 DEF Goto, TypeOK
  <2>2. x \in Records /\ UNCHANGED <<tables, clock, refused>>
    BY <2>1 DEF TypeOK, CheckCooldown, Labels, Records
  <2>3. x.at = "limit" /\ x.phone = call[r].phone /\ call[r].phone \in Phones
    BY DEF TypeOK, CheckCooldown, CallShape, Calling
  <2> QED
    BY <2>1, <2>2, <2>3, MoveCall DEF CheckCooldown, Won, Trying, Chosen
<1> QED
  BY <1>1, <1>2 DEF CheckCooldown

LEMMA CheckLimitStep ==
  ASSUME IInv, NEW r \in Calls, CheckLimit(r)
  PROVE  IInv'
<1> USE DEF IInv
<1>1. CASE Refuse(r)
  BY <1>1, EndCall DEF Refuse, CheckLimit
<1>2. CASE Goto(r, "send")
  <2> DEFINE x == [call[r] EXCEPT !.at = "send"]
  <2>1. call' = [call EXCEPT ![r] = x]
    BY <1>2 DEF Goto, TypeOK
  <2>2. x \in Records /\ UNCHANGED <<tables, clock, refused>>
    BY <2>1, ZenonT(40) DEF TypeOK, CheckLimit, Labels, Records
  <2>3. x.at = "send" /\ x.phone = call[r].phone /\ call[r].phone \in Phones
    BY DEF TypeOK, CheckLimit, CallShape, Calling
  <2> QED
    BY <2>1, <2>2, <2>3, MoveCall DEF CheckLimit, Won, Trying, Chosen
<1> QED
  BY <1>1, <1>2 DEF CheckLimit

LEMMA ReadAccountStep ==
  ASSUME IInv, NEW r \in Calls, ReadAccount(r)
  PROVE  IInv'
<1> USE DEF IInv
<1>1. CASE Refuse(r)
  BY <1>1, EndCall DEF Refuse, ReadAccount
<1>2. CASE ~Refuse(r)
  <2> DEFINE p == call[r].phone
             x == [call[r] EXCEPT !.at = "active", !.known = verified[p]]
  <2>1. p \in Phones /\ account[p] = "active" /\ verified[p] \in BOOLEAN
    BY <1>2 DEF TypeOK, ReadAccount, CallShape, Calling
  <2>2. call' = [call EXCEPT ![r] = x]
    BY <1>2 DEF ReadAccount, TypeOK
  <2>3. x \in Records
    <3>1. call[r] \in Records
      BY DEF TypeOK, Records
    <3> QED
      BY <2>1, <3>1 DEF Records, Labels
  <2>4. UNCHANGED <<tables, clock, refused>>
    BY DEF ReadAccount
  <2>5. x.at = "active" /\ x.phone = p /\ x.known = verified[p]
    BY DEF TypeOK
  <2>6. refused[r] => x.at \notin {"token", "user", "touch"}
    BY <2>5
  <2> HIDE DEF x
  <2> QED
    BY <2>1, <2>2, <2>3, <2>5, <2>6, <2>4, MoveCall DEF Won, Trying, Chosen
<1> QED
  BY <1>1, <1>2

LEMMA PickChallengeStep ==
  ASSUME IInv, NEW r \in Calls, PickChallenge(r)
  PROVE  IInv'
<1> USE DEF IInv
<1>1. CASE Refuse(r)
  BY <1>1, EndCall DEF Refuse, PickChallenge
<1>2. CASE ~Refuse(r)
  <2>1. PICK c \in Challenges :
          /\ owner[c] = call[r].phone
          /\ call' = [call EXCEPT ![r].challenge = c,
                       ![r].at = IF call[r].code = c THEN "consume" ELSE "wrong"]
    BY <1>2 DEF PickChallenge, Newest, Active, Of
  <2> DEFINE x == [call[r] EXCEPT !.challenge = c,
                     !.at = IF call[r].code = c THEN "consume" ELSE "wrong"]
  <2>2. call' = [call EXCEPT ![r] = x]
    BY <2>1 DEF TypeOK
  <2>3. x \in Records
    <3>1. call[r] \in Records
      BY DEF TypeOK, Records
    <3> QED
      BY <2>1, <3>1 DEF Records, Labels
  <2>4. UNCHANGED <<tables, clock, refused>>
    BY DEF PickChallenge
  <2>5. /\ x.at \in {"consume", "wrong"} /\ x.challenge = c
        /\ x.phone = call[r].phone /\ x.known = call[r].known
    BY DEF TypeOK
  <2>6. /\ call[r].phone \in Phones /\ account[call[r].phone] # "absent"
        /\ call[r].known => verified[call[r].phone]
    BY DEF PickChallenge, CallShape, Calling, Trying
  <2> HIDE DEF x, IInv
  <2>7. /\ x.at \notin Won \cup {"persist", "token", "user", "touch"}
        /\ x.challenge \in Challenges /\ owner[x.challenge] = x.phone
    BY <2>1, <2>5 DEF Won
  <2>8. x.phone \in Phones /\ account[x.phone] # "absent" /\ (x.known => verified[x.phone])
    BY <2>5, <2>6
  <2> QED
    BY <2>2, <2>3, <2>4, <2>7, <2>8, MoveCall
<1> QED
  BY <1>1, <1>2

LEMMA ReadSessionStep ==
  ASSUME IInv, NEW r \in Calls, ReadSession(r)
  PROVE  IInv'
<1> USE DEF IInv
<1>1. CASE Refuse(r)
  BY <1>1, EndCall DEF Refuse, ReadSession
<1>2. CASE ~Refuse(r)
  <2> DEFINE t == call[r].token
             x == [call[r] EXCEPT !.at = "user", !.phone = holder[t]]
  <2>1. /\ t \in Tokens /\ holder[t] \in Phones /\ Alive(t, call[r].now)
        /\ refused[r] => account[holder[t]] = "inactive"
    BY <1>2 DEF TypeOK, ReadSession, CallShape, Denied, Alive
  <2>2. call' = [call EXCEPT ![r] = x]
    BY <1>2 DEF ReadSession, TypeOK
  <2>3. x \in Records /\ UNCHANGED <<tables, clock, refused>>
    BY <2>1, <2>2, SMTT(30) DEF TypeOK, ReadSession, Labels, Records
  <2>4. x.at = "user" /\ x.phone = holder[t] /\ x.token = t
    BY DEF TypeOK
  <2> HIDE DEF x
  <2> QED
    BY <2>1, <2>2, <2>3, <2>4, MoveCall DEF ReadSession, Won, Trying, Chosen, Alive
<1> QED
  BY <1>1, <1>2

LEMMA ReadUserStep ==
  ASSUME IInv, NEW r \in Calls, ReadUser(r)
  PROVE  IInv'
<1> USE DEF IInv
<1>1. CASE Refuse(r)
  BY <1>1, EndCall DEF Refuse, ReadUser
<1>2. CASE ~Refuse(r)
  <2> DEFINE x == [call[r] EXCEPT !.at = "touch"]
  <2>1. ~refused[r]
    BY <1>2 DEF ReadUser, Denied
  <2>2. call' = [call EXCEPT ![r] = x]
    BY <1>2 DEF ReadUser, Goto, TypeOK
  <2>3. x \in Records /\ UNCHANGED <<tables, clock, refused>>
    BY <2>2, ZenonT(40) DEF TypeOK, ReadUser, Labels, Records
  <2>4. x.at = "touch"
    BY DEF TypeOK
  <2> QED
    BY <2>1, <2>2, <2>3, <2>4, MoveCall
       DEF ReadUser, Calling, Won, Trying, Chosen
<1> QED
  BY <1>1, <1>2

-----------------------------------------------------------------------------
(* A call begins                                                           *)

LEMMA BeginCall ==
  ASSUME IInv, NEW r \in Calls, NEW label \in {"find", "account", "token"},
         NEW p \in Phones \cup {NoPhone},
         NEW code \in Challenges \cup {Wrong, NoChallenge},
         NEW t \in Tokens \cup {NoToken}, Begin(r, label, p, code, t),
         label # "token" => p \in Phones,
         label = "token" => t \in Tokens /\ holder[t] # NoPhone,
         NEW b \in BOOLEAN, refused' = [refused EXCEPT ![r] = b],
         b => label = "token" /\ (~Alive(t, clock) \/ account[holder[t]] = "inactive")
  PROVE  IInv'
<1> USE DEF IInv
<1> DEFINE x == [Idle(FALSE) EXCEPT !.at = label, !.phone = p, !.now = clock,
                                     !.code = code, !.token = t]
<1>1. x \in Records
  BY IdleType DEF TypeOK, Records, Labels, Idle
<1>2. call' = [call EXCEPT ![r] = x] /\ UNCHANGED <<tables, clock>>
  BY DEF Begin
<1>3. x.at = label /\ x.phone = p /\ x.now = clock /\ x.token = t
  BY DEF Idle
<1> HIDE DEF x
<1>4. call'[r] = x /\ \A s \in Calls \ {r} : call'[s] = call[s]
  BY <1>2 DEF TypeOK
<1>5. TypeOK'
  BY <1>1, <1>2 DEF TypeOK, Records, tables
<1>6. CallShape'
  BY <1>2, <1>3, <1>4 DEF CallShape, tables, Calling, Trying, Chosen
<1>7. InFlight' /\ Winner'
  BY <1>2, <1>3, <1>4 DEF InFlight, Winner, tables, Won
<1>8. Denied'
  <2>1. refused'[r] = b /\ \A s \in Calls \ {r} : refused'[s] = refused[s]
    BY DEF TypeOK
  <2> QED
    BY <1>2, <1>3, <1>4, <2>1 DEF Denied, Alive, tables
<1>9. Sessions' /\ StoredWasDelivered' /\ SessionsAreEarned'
  BY <1>2 DEF Sessions, StoredWasDelivered, SessionsAreEarned, tables
<1> QED
  BY <1>5, <1>6, <1>7, <1>8, <1>9

LEMMA RequestCodeStep ==
  ASSUME IInv, NEW r \in Calls, NEW p \in Phones, RequestCode(r, p)
  PROVE  IInv'
BY BeginCall DEF RequestCode

LEMMA EnterCodeStep ==
  ASSUME IInv, NEW r \in Calls, NEW p \in Phones, NEW code \in sent \cup {Wrong},
         EnterCode(r, p, code)
  PROVE  IInv'
<1>1. code \in Challenges \cup {Wrong, NoChallenge}
  BY DEF IInv, TypeOK
<1> QED
  BY <1>1, BeginCall DEF EnterCode

LEMMA PresentStep ==
  ASSUME IInv, NEW r \in Calls, NEW t \in Tokens, Present(r, t)
  PROVE  IInv'
<1>1. holder[t] \in Phones /\ account[holder[t]] \in {"active", "inactive"}
  BY DEF IInv, TypeOK, Sessions, Present
<1>2. PICK b \in BOOLEAN :
        /\ refused' = [refused EXCEPT ![r] = b]
        /\ b => ~Alive(t, clock) \/ account[holder[t]] = "inactive"
  <2>1. CASE Good(t)
    <3>1. refused' = [refused EXCEPT ![r] = FALSE]
      BY <2>1, Zenon DEF Present
    <3> QED
      BY <3>1
  <2>2. CASE ~Good(t)
    <3>1. refused' = [refused EXCEPT ![r] = TRUE]
      BY <2>2, Zenon DEF Present
    <3>2. ~Alive(t, clock) \/ account[holder[t]] = "inactive"
      BY <1>1, <2>2 DEF Good
    <3> QED
      BY <3>1, <3>2
  <2> QED
    BY <2>1, <2>2
<1> QED
  BY <1>2, BeginCall DEF Present

-----------------------------------------------------------------------------
(* A code is asked for                                                     *)

LEMMA CreateStep ==
  ASSUME IInv, NEW r \in Calls, Create(r)
  PROVE  IInv'
<1> USE DEF IInv
<1> DEFINE p == call[r].phone
           x == [call[r] EXCEPT !.at = "cooldown"]
<1>1. p \in Phones
  BY DEF Create, CallShape, Calling
<1>2. /\ call'[r] = x /\ x.at = "cooldown" /\ x.phone = p
      /\ \A s \in Calls \ {r} : call'[s] = call[s]
  BY DEF Create, Goto, TypeOK
<1>3. \A q \in Phones :
        /\ account[q] # "absent" => account'[q] = account[q]
        /\ account'[q] \in {"absent", "active", "inactive"}
  BY <1>1 DEF Create, TypeOK
<1>4. TypeOK'
  <2>1. account' \in [Phones -> {"absent", "active", "inactive"}]
    BY <1>1, <1>3 DEF Create, TypeOK
  <2>2. x \in Records /\ call' = [call EXCEPT ![r] = x]
    BY ZenonT(40) DEF Create, Goto, TypeOK, Records, Labels
  <2> QED
    BY <2>1, <2>2 DEF Create, TypeOK, Records
<1> HIDE DEF x
<1>5. CallShape'
  BY <1>1, <1>2, <1>3 DEF CallShape, Create, Calling, Trying, Chosen
<1>6. InFlight' /\ Winner'
  BY <1>2 DEF InFlight, Winner, Create, Won
<1>7. Denied'
  <2>1. \A s \in Calls : call[s].at \in {"token", "user"} =>
          holder[call[s].token] \in Phones /\ account[holder[call[s].token]] # "absent"
    BY DEF CallShape, Sessions, TypeOK
  <2> QED
    BY <1>1, <1>2, <1>3, <2>1 DEF Denied, Alive, Create, CallShape
<1>8. Sessions'
  BY <1>3 DEF Sessions, Create, TypeOK
<1>9. StoredWasDelivered' /\ SessionsAreEarned'
  BY DEF Create, StoredWasDelivered, SessionsAreEarned
<1> QED
  BY <1>4, <1>5, <1>6, <1>7, <1>8, <1>9

LEMMA SendStep ==
  ASSUME IInv, NEW r \in Calls, Send(r)
  PROVE  IInv'
<1> USE DEF IInv
<1>1. UNCHANGED <<account, verified, owner, created, attempts, consumed,
                  holder, born, revoked, opened, clock, refused>>
  BY DEF Send
<1>2. PICK c \in Challenges :
        /\ Fresh(c)
        /\ \/ /\ sent' = sent \cup {c}
              /\ call' = [call EXCEPT ![r].at = "persist", ![r].challenge = c]
           \/ sent' \in {sent, sent \cup {c}} /\ Refuse(r)
  BY DEF Send
<1>3. PICK x \in Records :
        /\ call' = [call EXCEPT ![r] = x]
        /\ \/ x.at = "idle"
           \/ /\ x.at = "persist" /\ x.challenge = c /\ x.phone \in Phones
              /\ sent' = sent \cup {c}
  <2>1. CASE Refuse(r)
    BY <2>1, IdleType DEF Refuse, Idle
  <2>2. CASE /\ sent' = sent \cup {c}
             /\ call' = [call EXCEPT ![r].at = "persist", ![r].challenge = c]
    <3> DEFINE y == [call[r] EXCEPT !.at = "persist", !.challenge = c]
    <3>1. call[r] \in Records /\ call[r].phone \in Phones
      BY DEF TypeOK, Records, CallShape, Calling, Send
    <3>2. y \in Records /\ y.at = "persist" /\ y.challenge = c /\ y.phone \in Phones
      BY <3>1 DEF Records, Labels
    <3>3. call' = [call EXCEPT ![r] = y]
      BY <2>2 DEF TypeOK
    <3> QED
      BY <2>2, <3>2, <3>3
  <2> QED
    BY <1>2, <2>1, <2>2
<1>4. sent \subseteq sent' /\ sent' \subseteq Challenges
  BY <1>2 DEF TypeOK
<1>5. call'[r] = x /\ \A s \in Calls \ {r} : call'[s] = call[s]
  BY <1>3 DEF TypeOK
<1>6. TypeOK'
  BY <1>1, <1>3, <1>4 DEF TypeOK, Records
<1>7. CallShape'
  BY <1>1, <1>3, <1>5 DEF CallShape, Calling, Trying, Chosen
<1>8. InFlight'
  BY <1>1, <1>2, <1>3, <1>4, <1>5 DEF InFlight, Fresh
<1>9. Winner'
  BY <1>1, <1>3, <1>5 DEF Winner, Won
<1>10. Denied'
  BY <1>1, <1>3, <1>5 DEF Denied, Alive
<1>11. Sessions' /\ StoredWasDelivered' /\ SessionsAreEarned'
  BY <1>1, <1>4 DEF Sessions, StoredWasDelivered, SessionsAreEarned
<1> QED
  BY <1>6, <1>7, <1>8, <1>9, <1>10, <1>11

LEMMA PersistStep ==
  ASSUME IInv, NEW r \in Calls, Persist(r)
  PROVE  IInv'
<1> USE DEF IInv
<1> DEFINE c == call[r].challenge
<1>1. /\ owner' = [owner EXCEPT ![c] = call[r].phone]
      /\ created' = [created EXCEPT ![c] = call[r].now]
      /\ call' = [call EXCEPT ![r] = Idle(TRUE)]
  BY DEF Persist, Serve
<1>2. UNCHANGED <<account, verified, attempts, consumed, sent, holder, born,
                  revoked, opened, clock, refused>>
  BY DEF Persist
<1>3. /\ c \in Challenges /\ c \in sent /\ owner[c] = NoPhone /\ call[r].phone \in Phones
      /\ \A s \in Calls \ {r} : call[s].at = "persist" => call[s].challenge # c
  BY DEF InFlight, CallShape, Persist, Calling
<1>4. call'[r].at = "idle" /\ \A s \in Calls \ {r} : call'[s] = call[s]
  BY <1>1 DEF TypeOK, Idle
<1>5. \A d \in Challenges : owner[d] # NoPhone => owner'[d] = owner[d]
  BY <1>1, <1>3 DEF TypeOK
<1>6. \A d \in Challenges \ {c} : owner'[d] = owner[d]
  BY <1>1, <1>3 DEF TypeOK
<1>7. TypeOK'
  BY <1>1, <1>2, <1>3, IdleType DEF TypeOK, Records
<1>8. CallShape'
  <2>1. \A s \in Calls : call[s].at \in Chosen => owner[call[s].challenge] # NoPhone
    BY SignInAssumption DEF CallShape, Calling, Chosen
  <2> QED
    BY <1>2, <1>4, <1>5, <2>1 DEF CallShape, Calling, Trying, Chosen
<1>9. InFlight'
  BY <1>2, <1>3, <1>4, <1>6 DEF InFlight
<1>10. Winner' /\ Denied'
  BY <1>2, <1>4 DEF Winner, Won, Denied, Alive
<1>11. Sessions' /\ StoredWasDelivered'
  BY <1>2, <1>3, <1>6 DEF Sessions, StoredWasDelivered
<1>12. SessionsAreEarned'
  BY <1>2, <1>5 DEF SessionsAreEarned, TypeOK, Sessions
<1> QED
  BY <1>7, <1>8, <1>9, <1>10, <1>11, <1>12

-----------------------------------------------------------------------------
(* A code is typed                                                         *)

LEMMA CountWrongStep ==
  ASSUME IInv, NEW r \in Calls, CountWrong(r)
  PROVE  IInv'
<1> USE DEF IInv
<1>1. UNCHANGED <<account, verified, owner, created, consumed, sent, holder,
                  born, revoked, opened, clock, refused>>
  BY DEF CountWrong
<1>2. call' = [call EXCEPT ![r] = Idle(FALSE)]
  BY DEF CountWrong, Refuse
<1>3. call'[r].at = "idle" /\ \A s \in Calls \ {r} : call'[s] = call[s]
  BY <1>2 DEF TypeOK, Idle
<1>4. attempts' \in [Challenges -> Nat]
  <2>1. call[r].challenge \in Challenges
    BY DEF CountWrong, CallShape, Chosen
  <2> QED
    BY <2>1 DEF CountWrong, TypeOK
<1>5. TypeOK'
  BY <1>1, <1>2, <1>4, IdleType DEF TypeOK, Records
<1>6. CallShape'
  BY <1>1, <1>3 DEF CallShape, Calling, Trying, Chosen
<1>7. InFlight' /\ Winner'
  BY <1>1, <1>3 DEF InFlight, Winner, Won
<1>8. Denied'
  BY <1>1, <1>3 DEF Denied, Alive
<1>9. Sessions' /\ StoredWasDelivered' /\ SessionsAreEarned'
  BY <1>1 DEF Sessions, StoredWasDelivered, SessionsAreEarned
<1> QED
  BY <1>5, <1>6, <1>7, <1>8, <1>9

LEMMA ConsumeStep ==
  ASSUME IInv, NEW r \in Calls, Consume(r)
  PROVE  IInv'
<1> USE DEF IInv
<1> DEFINE c == call[r].challenge
           label == IF call[r].known THEN "open" ELSE "verified"
           x == [call[r] EXCEPT !.at = label]
<1>1. CASE ~Consumable(c, call[r].now)
  BY <1>1, EndCall DEF Consume, Refuse, tables
<1>2. CASE Consumable(c, call[r].now)
  <2>1. UNCHANGED <<account, verified, owner, created, attempts, sent, holder,
                    born, revoked, opened, clock, refused>>
    BY DEF Consume
  <2>2. /\ ~consumed[c] /\ consumed' = [consumed EXCEPT ![c] = TRUE]
        /\ call' = [call EXCEPT ![r] = x]
    BY <1>2 DEF Consume, Consumable, Goto, TypeOK
  <2>3. /\ c \in Challenges /\ owner[c] = call[r].phone /\ call[r].phone \in Phones
        /\ account[call[r].phone] # "absent"
        /\ call[r].known => verified[call[r].phone]
    BY DEF Consume, CallShape, Calling, Trying, Chosen
  <2>4. call[r] \in Records /\ call[r].known \in BOOLEAN
    BY DEF TypeOK, Records
  <2>5. x \in Records
    BY <2>4 DEF Records, Labels
  <2>6. /\ x.at \in Won /\ x.challenge = c /\ x.phone = call[r].phone
        /\ x.at = "open" => call[r].known
        /\ x.known = call[r].known
    BY <2>4 DEF Records, Won
  <2>7. \A d \in Challenges : consumed[d] => consumed'[d]
    BY <2>2, <2>3 DEF TypeOK
  <2>8. consumed'[c]
    BY <2>2, <2>3 DEF TypeOK
  <2> HIDE DEF x, label, c
  <2>9. call'[r] = x /\ \A s \in Calls \ {r} : call'[s] = call[s]
    BY <2>2 DEF TypeOK
  <2>10. TypeOK'
    BY <2>1, <2>2, <2>3, <2>5 DEF TypeOK, Records
  <2>11. CallShape'
    BY <2>1, <2>3, <2>6, <2>9 DEF CallShape, Calling, Trying, Chosen, Won
  <2>12. InFlight'
    BY <2>1, <2>6, <2>9 DEF InFlight, Won
  <2>13. Winner'
    <3>1. \A s \in Calls \ {r} : call[s].at \in Won =>
            /\ call[s].challenge \in Challenges /\ consumed[call[s].challenge]
            /\ call[s].challenge # c
      BY <2>2 DEF Winner, CallShape, Won, Chosen
    <3>2. \A t \in Tokens : opened[t] # c
      BY <2>2, <2>3, SignInAssumption DEF Sessions, SessionsAreEarned
    <3> QED
      BY <2>1, <2>6, <2>7, <2>8, <2>9, <3>1, <3>2 DEF Winner
  <2>14. Denied'
    BY <2>1, <2>6, <2>9 DEF Denied, Alive, Won
  <2>15. Sessions' /\ StoredWasDelivered'
    BY <2>1 DEF Sessions, StoredWasDelivered
  <2>16. SessionsAreEarned'
    BY <2>1, <2>7 DEF SessionsAreEarned, Sessions
  <2> QED
    BY <2>10, <2>11, <2>12, <2>13, <2>14, <2>15, <2>16
<1> QED
  BY <1>1, <1>2

LEMMA MarkVerifiedStep ==
  ASSUME IInv, NEW r \in Calls, MarkVerified(r)
  PROVE  IInv'
<1> USE DEF IInv
<1> DEFINE p == call[r].phone
           x == [call[r] EXCEPT !.at = "open"]
<1>1. UNCHANGED <<account, owner, created, attempts, consumed, sent, holder,
                  born, revoked, opened, clock, refused>>
  BY DEF MarkVerified
<1>2. p \in Phones /\ call[r].at = "verified" /\ call[r] \in Records
  BY DEF MarkVerified, CallShape, Calling, TypeOK, Records
<1>3. verified' = [verified EXCEPT ![p] = TRUE] /\ call' = [call EXCEPT ![r] = x]
  BY DEF MarkVerified, Goto, TypeOK
<1>4. x \in Records /\ x.at = "open"
      /\ x.phone = p /\ x.challenge = call[r].challenge /\ x.known = call[r].known
  BY <1>2 DEF Records, Labels
<1>5. verified'[p] /\ \A q \in Phones : verified[q] => verified'[q]
  BY <1>2, <1>3 DEF TypeOK
<1> HIDE DEF x, p
<1>6. call'[r] = x /\ \A s \in Calls \ {r} : call'[s] = call[s]
  BY <1>3 DEF TypeOK
<1>7. TypeOK'
  BY <1>1, <1>2, <1>3, <1>4 DEF TypeOK, Records
<1>8. CallShape'
  <2>1. /\ x.phone \in Phones /\ account[x.phone] # "absent" /\ verified'[x.phone]
        /\ x.challenge \in Challenges /\ owner[x.challenge] = x.phone
    BY <1>2, <1>4, <1>5 DEF p, CallShape, Trying, Chosen
  <2>2. \A s \in Calls \ {r} :
          /\ call[s].at \in Trying /\ call[s].known => verified'[call[s].phone]
          /\ call[s].at = "open" => verified'[call[s].phone]
    BY <1>5 DEF CallShape, Calling, Trying
  <2> QED
    BY <1>1, <1>4, <1>6, <2>1, <2>2 DEF CallShape
<1>9. InFlight'
  BY <1>1, <1>4, <1>6 DEF InFlight
<1>10. Winner'
  <2>1. call[r].at \in Won /\ x.at \in Won
    BY <1>2, <1>4 DEF Won
  <2> QED
    BY <1>1, <1>4, <1>6, <2>1 DEF Winner
<1>11. Denied'
  BY <1>1, <1>4, <1>6 DEF Denied, Alive
<1>12. Sessions' /\ StoredWasDelivered'
  BY <1>1 DEF Sessions, StoredWasDelivered
<1>13. SessionsAreEarned'
  <2>1. \A t \in Tokens : holder[t] # NoPhone => holder[t] \in Phones
    BY DEF TypeOK
  <2> QED
    BY <1>1, <1>5, <2>1 DEF SessionsAreEarned
<1> QED
  BY <1>7, <1>8, <1>9, <1>10, <1>11, <1>12, <1>13

LEMMA OpenSessionStep ==
  ASSUME IInv, NEW r \in Calls, OpenSession(r)
  PROVE  IInv'
<1> USE DEF IInv
<1> DEFINE p == call[r].phone
           c == call[r].challenge
<1>1. UNCHANGED <<account, verified, owner, created, attempts, consumed, sent,
                  revoked, clock, refused>>
  BY DEF OpenSession
<1>2. PICK t \in Tokens :
        /\ holder[t] = NoPhone
        /\ holder' = [holder EXCEPT ![t] = p]
        /\ born' = [born EXCEPT ![t] = call[r].now]
        /\ opened' = [opened EXCEPT ![t] = c]
  BY DEF OpenSession
<1>3. call' = [call EXCEPT ![r] = Idle(TRUE)]
  BY DEF OpenSession, Serve
<1>4. call'[r].at = "idle" /\ \A s \in Calls \ {r} : call'[s] = call[s]
  BY <1>3 DEF TypeOK, Idle
<1>5. /\ p \in Phones /\ account[p] # "absent" /\ verified[p]
      /\ c \in Challenges /\ owner[c] = p /\ consumed[c] /\ c \in sent
      /\ \A s \in Calls \ {r} : call[s].at \in Won => call[s].challenge # c
      /\ \A u \in Tokens : opened[u] # c
  <2>1. call[r].at = "open"
    BY DEF OpenSession
  <2> QED
    BY <2>1, SignInAssumption
       DEF CallShape, Winner, StoredWasDelivered, Calling, Trying, Chosen, Won
<1>6. /\ holder'[t] = p /\ opened'[t] = c
      /\ \A u \in Tokens \ {t} :
           holder'[u] = holder[u] /\ opened'[u] = opened[u] /\ born'[u] = born[u]
  BY <1>2 DEF TypeOK
<1>7. TypeOK'
  BY <1>1, <1>2, <1>3, <1>5, IdleType DEF TypeOK, Records
<1> HIDE DEF p, c
<1>8. CallShape'
  <2>1. \A s \in Calls \ {r} : call[s].at \in {"token", "user"} => call[s].token # t
    BY <1>2 DEF CallShape
  <2> QED
    BY <1>1, <1>4, <1>6, <2>1 DEF CallShape, Calling, Trying, Chosen
<1>9. InFlight'
  BY <1>1, <1>4 DEF InFlight
<1>10. Winner'
  BY <1>1, <1>4, <1>5, <1>6 DEF Winner, Won
<1>11. Denied'
  <2>1. \A s \in Calls \ {r} : call[s].at \in {"token", "user"} =>
          call[s].token \in Tokens \ {t}
    BY <1>2 DEF CallShape
  <2> QED
    BY <1>1, <1>4, <1>6, <2>1 DEF Denied, Alive
<1>12. Sessions'
  BY <1>1, <1>5, <1>6, SignInAssumption DEF Sessions
<1>13. StoredWasDelivered'
  BY <1>1 DEF StoredWasDelivered
<1>14. SessionsAreEarned'
  BY <1>1, <1>5, <1>6 DEF SessionsAreEarned
<1> QED
  BY <1>7, <1>8, <1>9, <1>10, <1>11, <1>12, <1>13, <1>14

-----------------------------------------------------------------------------
(* The other actors                                                        *)

LEMMA LogoutStep ==
  ASSUME IInv, NEW t \in Tokens, Logout(t)
  PROVE  IInv'
<1> USE DEF IInv
<1>1. UNCHANGED <<account, verified, owner, created, attempts, consumed, sent,
                  holder, born, opened, clock, call, refused>>
  BY DEF Logout
<1>2. TypeOK' /\ \A u \in Tokens : revoked[u] => revoked'[u]
  BY <1>1 DEF Logout, TypeOK
<1>3. CallShape' /\ InFlight' /\ Winner'
  BY <1>1 DEF CallShape, InFlight, Winner
<1>4. Denied'
  BY <1>1, <1>2 DEF Denied, Alive, CallShape
<1>5. Sessions' /\ StoredWasDelivered' /\ SessionsAreEarned'
  BY <1>1 DEF Sessions, StoredWasDelivered, SessionsAreEarned
<1> QED
  BY <1>2, <1>3, <1>4, <1>5

LEMMA DeactivateStep ==
  ASSUME IInv, NEW p \in Phones, Deactivate(p)
  PROVE  IInv'
<1> USE DEF IInv
<1>1. UNCHANGED <<verified, owner, created, attempts, consumed, sent, holder,
                  born, revoked, opened, clock, call, refused>>
  BY DEF Deactivate
<1>2. /\ TypeOK'
      /\ \A q \in Phones : account[q] # "absent" => account'[q] # "absent"
      /\ \A q \in Phones : account[q] = "inactive" => account'[q] = "inactive"
  BY <1>1 DEF Deactivate, TypeOK
<1>3. CallShape'
  BY <1>1, <1>2 DEF CallShape, Calling, Trying
<1>4. InFlight' /\ Winner'
  BY <1>1 DEF InFlight, Winner
<1>5. Denied'
  <2>1. \A s \in Calls : call[s].at \in {"token", "user"} => holder[call[s].token] \in Phones
    BY DEF CallShape, TypeOK
  <2> QED
    BY <1>1, <1>2, <2>1 DEF Denied, Alive, CallShape, Calling
<1>6. Sessions'
  BY <1>1, <1>2 DEF Sessions, TypeOK
<1>7. StoredWasDelivered' /\ SessionsAreEarned'
  BY <1>1 DEF StoredWasDelivered, SessionsAreEarned
<1> QED
  BY <1>2, <1>3, <1>4, <1>5, <1>6, <1>7

LEMMA TickStep == IInv /\ Tick => IInv'
<1> SUFFICES ASSUME IInv, Tick PROVE IInv'
  OBVIOUS
<1> USE DEF IInv
<1>1. TypeOK'
  BY SignInAssumption DEF Tick, tables, TypeOK, Times
<1>2. CallShape' /\ InFlight' /\ Winner'
  BY DEF Tick, tables, CallShape, InFlight, Winner
<1>3. Denied'
  BY DEF Tick, tables, Denied, Alive
<1>4. Sessions' /\ StoredWasDelivered' /\ SessionsAreEarned'
  BY DEF Tick, tables, Sessions, StoredWasDelivered, SessionsAreEarned
<1> QED
  BY <1>1, <1>2, <1>3, <1>4

-----------------------------------------------------------------------------
(* The invariant                                                           *)

LEMMA HandleStep ==
  ASSUME IInv, NEW r \in Calls, Handle(r)
  PROVE  IInv'
<1>1. CASE Touch(r)
  BY <1>1, EndCall DEF Touch, Serve
<1> QED
  BY <1>1, FindStep, CreateStep, CheckCooldownStep, CheckLimitStep, SendStep,
     PersistStep, ReadAccountStep, PickChallengeStep, CountWrongStep, ConsumeStep,
     MarkVerifiedStep, OpenSessionStep, ReadSessionStep, ReadUserStep
     DEF Handle

LEMMA StepIInv == IInv /\ [Next]_vars => IInv'
<1> SUFFICES ASSUME IInv, [Next]_vars PROVE IInv'
  OBVIOUS
<1>1. ASSUME NEW r \in Calls, Fail(r) PROVE IInv'
  BY <1>1, EndCall DEF Fail, Refuse
<1>2. CASE UNCHANGED vars
  <2> USE DEF IInv
  <2>1. UNCHANGED <<account, verified, owner, created, attempts, consumed, sent,
                    holder, born, revoked, opened, clock, call, refused>>
    BY <1>2 DEF vars, tables
  <2>2. TypeOK' /\ CallShape' /\ InFlight' /\ Winner'
    BY <2>1 DEF TypeOK, CallShape, InFlight, Winner
  <2>3. Sessions' /\ StoredWasDelivered' /\ SessionsAreEarned' /\ Denied'
    BY <2>1 DEF Sessions, StoredWasDelivered, SessionsAreEarned, Denied, Alive
  <2> QED
    BY <2>2, <2>3
<1> QED
  BY <1>1, <1>2, RequestCodeStep, EnterCodeStep, PresentStep, HandleStep,
     LogoutStep, DeactivateStep, TickStep
     DEF Next

LEMMA AlwaysIInv == Spec => []IInv
  BY InitIInv, StepIInv, PTL DEF Spec

-----------------------------------------------------------------------------
(* The theorems                                                            *)

\* The tables and the calls keep their types, for any number of concurrent
\* sign-ins (authentication.py with its repositories).
THEOREM TypesHold == Spec => []TypeOK
<1>1. IInv => TypeOK
  BY DEF IInv
<1> QED
  BY <1>1, AlwaysIInv, PTL

\* A session is opened by one code that was delivered, stored for that phone
\* and used for nothing else, however many verifications race
\* (verify_challenge, consume_if_matching).
THEOREM SessionsEarned == Spec => []SessionsAreEarned
<1>1. IInv => SessionsAreEarned
  BY DEF IInv
<1> QED
  BY <1>1, AlwaysIInv, PTL

\* No code is stored, and none counts against a limit, that did not reach its
\* phone (request_challenge: the SMS goes out before the row is written).
THEOREM StoredDelivered == Spec => []StoredWasDelivered
<1>1. IInv => StoredWasDelivered
  BY DEF IInv
<1> QED
  BY <1>1, AlwaysIInv, PTL

\* A call that was no longer entitled to enter when it began is not let in,
\* and nothing signed out, used or stored is undone, whatever late steps of
\* other calls write (get_current_user, logout, touch, consume_if_matching).
THEOREM RefusalsLast == Spec => RefusedForGood
<1>1. IInv /\ [Next]_vars => [\A r \in Calls : LetIn(r) => ~refused[r]]_vars
  BY DEF IInv, Denied, LetIn
<1>2. IInv /\ [Next]_vars =>
        [/\ \A t \in Tokens : revoked[t] => revoked'[t]
         /\ \A c \in Challenges : consumed[c] => consumed'[c]
         /\ \A c \in Challenges : owner[c] # NoPhone =>
              owner'[c] = owner[c] /\ created'[c] = created[c]]_vars
  <2> SUFFICES ASSUME IInv, Next
               PROVE  /\ \A t \in Tokens : revoked[t] => revoked'[t]
                      /\ \A c \in Challenges : consumed[c] => consumed'[c]
                      /\ \A c \in Challenges : owner[c] # NoPhone =>
                           owner'[c] = owner[c] /\ created'[c] = created[c]
    OBVIOUS
  <2> USE DEF IInv
  <2>1. ASSUME NEW r \in Calls, Persist(r)
        PROVE  /\ \A c \in Challenges : owner[c] # NoPhone =>
                    owner'[c] = owner[c] /\ created'[c] = created[c]
               /\ UNCHANGED <<revoked, consumed>>
    BY <2>1 DEF Persist, InFlight, TypeOK
  <2>2. ASSUME NEW r \in Calls, Consume(r)
        PROVE  /\ \A c \in Challenges : consumed[c] => consumed'[c]
               /\ UNCHANGED <<revoked, owner, created>>
    BY <2>2 DEF Consume, TypeOK
  <2>3. ASSUME NEW t \in Tokens, Logout(t)
        PROVE  /\ \A u \in Tokens : revoked[u] => revoked'[u]
               /\ UNCHANGED <<consumed, owner, created>>
    BY <2>3 DEF Logout, TypeOK
  <2>4. ASSUME NEW r \in Calls, Handle(r), ~Persist(r), ~Consume(r)
        PROVE  UNCHANGED <<revoked, consumed, owner, created>>
    BY <2>4 DEF Handle, Find, Create, CheckCooldown, CheckLimit, Send, ReadAccount,
       PickChallenge, CountWrong, MarkVerified, OpenSession, ReadSession,
       ReadUser, Touch, tables
  <2>5. CASE /\ ~ \E r \in Calls : Handle(r)
             /\ ~ \E t \in Tokens : Logout(t)
    BY <2>5 DEF Next, RequestCode, EnterCode, Present, Begin, Fail, Deactivate,
       Tick, tables
  <2> QED
    BY <2>1, <2>2, <2>3, <2>4, <2>5
<1> QED
  BY <1>1, <1>2, AlwaysIInv, PTL DEF Spec, RefusedForGood, NoEntryOnceRefused, NothingComesBack

-----------------------------------------------------------------------------
(* What is counted and what is on its way                                  *)

\* The rows of a window, and the calls at certain steps that will, or may,
\* add a row to it.
Stored(p, a, b) == {c \in Of(p) : a <= created[c] /\ created[c] <= b}

Coming(steps, p, a, b) ==
  {r \in Calls : /\ call[r].at \in steps /\ call[r].phone = p
                 /\ a <= call[r].now /\ call[r].now <= b}

\* The calls that found a wrong code and have not counted it.
Counting(c) == {r \in Calls : call[r].at = "wrong" /\ call[r].challenge = c}

Limited == {"send", "persist"}
Cooled == Limited \cup {"limit"}

AttemptsSum ==
  \A c \in Challenges :
    attempts[c] + Cardinality(Counting(c)) <= MaxAttempts - 1 + Cardinality(Calls)

Sum(steps, p, a, b) == Cardinality(Stored(p, a, b)) + Cardinality(Coming(steps, p, a, b))

CooldownSum ==
  \A p \in Phones, t \in Times :
    Sum(Cooled, p, t - Cooldown + 1, t) <= Cardinality(Calls)

DailySum ==
  \A p \in Phones, t \in Times :
    Sum(Limited, p, t - Day, t) <= DailyLimit - 1 + Cardinality(Calls)

\* A phone that has codes has a newest one.
HasNewest == \A p \in Phones : Of(p) # {} => Newest(Of(p)) # {}

LimitsInv == AttemptsSum /\ CooldownSum /\ DailySum /\ HasNewest

-----------------------------------------------------------------------------
(* Counting                                                                *)

LEMMA LimitTypes ==
  /\ DailyLimit \in Nat /\ DailyLimit > 0 /\ MaxAttempts \in Nat /\ MaxAttempts > 0
  /\ Cooldown \in Nat /\ Day \in Nat /\ MaxTime \in Nat
  BY SignInAssumption

LEMMA CallsCount == IsFiniteSet(Calls) /\ Cardinality(Calls) \in Nat
  BY SignInAssumption, FS_CardinalityType

LEMMA SomeCalls ==
  ASSUME NEW S, S \subseteq Calls
  PROVE  IsFiniteSet(S) /\ Cardinality(S) \in Nat /\ Cardinality(S) <= Cardinality(Calls)
  BY CallsCount, FS_Subset, FS_CardinalityType

LEMMA StoredCount ==
  ASSUME NEW p, NEW a, NEW b
  PROVE  IsFiniteSet(Stored(p, a, b)) /\ Cardinality(Stored(p, a, b)) \in Nat
<1>1. Stored(p, a, b) \subseteq Challenges
  BY DEF Stored, Of
<1> QED
  BY <1>1, SignInAssumption, FS_Subset, FS_CardinalityType

LEMMA ComingCount ==
  ASSUME NEW steps, NEW p, NEW a, NEW b
  PROVE  /\ Coming(steps, p, a, b) \subseteq Calls
         /\ IsFiniteSet(Coming(steps, p, a, b))
         /\ Cardinality(Coming(steps, p, a, b)) \in Nat
         /\ Cardinality(Coming(steps, p, a, b)) <= Cardinality(Calls)
<1>1. Coming(steps, p, a, b) \subseteq Calls
  BY DEF Coming
<1> QED
  BY <1>1, SomeCalls

LEMMA CountingCount ==
  ASSUME NEW c
  PROVE  /\ IsFiniteSet(Counting(c))
         /\ Cardinality(Counting(c)) \in Nat
         /\ Cardinality(Counting(c)) <= Cardinality(Calls)
<1>1. Counting(c) \subseteq Calls
  BY DEF Counting
<1> QED
  BY <1>1, SomeCalls

LEMMA EmptyCount == Cardinality({}) = 0
  BY FS_EmptySet

LEMMA InitLimits == Init => LimitsInv
<1> SUFFICES ASSUME Init PROVE LimitsInv
  OBVIOUS
<1>1. \A steps, p, a, b : p \in Phones /\ "idle" \notin steps =>
        Stored(p, a, b) = {} /\ Coming(steps, p, a, b) = {} /\ Of(p) = {}
  BY SignInAssumption DEF Init, Stored, Coming, Of, Idle
<1>2. \A c : Counting(c) = {}
  BY DEF Init, Counting, Idle
<1>3. \A n \in Nat \ {0} : 0 <= n - 1 + Cardinality(Calls)
  BY CallsCount
<1>4. AttemptsSum
  <2> SUFFICES ASSUME NEW c \in Challenges
               PROVE  attempts[c] + Cardinality(Counting(c))
                        <= MaxAttempts - 1 + Cardinality(Calls)
    BY DEF AttemptsSum
  <2>1. attempts[c] = 0 /\ Cardinality(Counting(c)) = 0
    BY <1>2, EmptyCount DEF Init
  <2> QED
    BY <2>1, <1>3, SignInAssumption
<1>5. \A steps \in {Cooled, Limited}, p \in Phones :
        \A a, b : Sum(steps, p, a, b) = 0
  BY <1>1, EmptyCount DEF Sum, Cooled, Limited
<1>6. CooldownSum /\ DailySum
  BY <1>3, <1>5, CallsCount, SignInAssumption DEF CooldownSum, DailySum
<1>7. HasNewest
  BY <1>1 DEF HasNewest, Cooled
<1> QED
  BY <1>4, <1>6, <1>7 DEF LimitsInv

-----------------------------------------------------------------------------
(* How a call gets on its way                                              *)

\* A call that did not move is where it was.
LEMMA OthersStay ==
  ASSUME IInv, NEW r \in Calls, NEW x, call' = [call EXCEPT ![r] = x]
  PROVE  call'[r] = x /\ \A s \in Calls \ {r} : call'[s] = call[s]
  BY DEF IInv, TypeOK

\* A call comes under way through a check that it passes, and by no other step.
LEMMA Entering ==
  ASSUME IInv, Next, NEW s \in Calls
  PROVE  /\ call'[s].at \in Cooled =>
              /\ call'[s].phone = call[s].phone /\ call'[s].now = call[s].now
              /\ call[s].at \in Cooled \/ CheckCooldown(s)
         /\ call'[s].at \in Limited => call[s].at \in Limited \/ CheckLimit(s)
         /\ call'[s].at = "wrong" => call'[s] = call[s] \/ PickChallenge(s)
<1> DEFINE Goal == /\ call'[s].at \in Cooled =>
                        /\ call'[s].phone = call[s].phone /\ call'[s].now = call[s].now
                        /\ call[s].at \in Cooled \/ CheckCooldown(s)
                   /\ call'[s].at \in Limited => call[s].at \in Limited \/ CheckLimit(s)
                   /\ call'[s].at = "wrong" => call'[s] = call[s] \/ PickChallenge(s)
<1> USE DEF Cooled, Limited
<1>1. call \in [Calls -> Records]
  BY DEF IInv, TypeOK, Records
<1>2. CASE call'[s] = call[s]
  BY <1>2
<1>3. ASSUME NEW r \in Calls, NEW x, call' = [call EXCEPT ![r] = x],
             r = s => x.at \notin Cooled \cup {"wrong"}
      PROVE  Goal
  BY <1>2, <1>3, OthersStay
<1>4. ASSUME NEW r \in Calls, NEW served \in BOOLEAN, call' = [call EXCEPT ![r] = Idle(served)]
      PROVE  Goal
  BY <1>3, <1>4 DEF Idle
<1>5. ASSUME NEW r \in Calls, NEW label \in {"find", "account", "token"}, NEW p, NEW code, NEW t,
             Begin(r, label, p, code, t)
      PROVE  Goal
  <2>1. [Idle(FALSE) EXCEPT !.at = label, !.phone = p, !.now = clock, !.code = code,
                            !.token = t].at = label
    BY DEF Idle
  <2> QED
    BY <2>1, <1>5, <1>3 DEF Begin
<1>6. ASSUME NEW r \in Calls, NEW label \in Labels, Goto(r, label)
      PROVE  /\ label \notin Cooled \cup {"wrong"} => Goal
             /\ label = "limit" /\ CheckCooldown(r) => Goal
             /\ label = "send" /\ CheckLimit(r) => Goal
  <2> DEFINE x == [call[r] EXCEPT !.at = label]
  <2>1. call' = [call EXCEPT ![r] = x]
    BY <1>6, <1>1 DEF Goto
  <2>2. x.at = label /\ x.phone = call[r].phone /\ x.now = call[r].now
    BY <1>1 DEF Records
  <2> HIDE DEF x
  <2>3. call'[r] = x /\ \A q \in Calls \ {r} : call'[q] = call[q]
    BY <2>1, OthersStay
  <2>4. label \notin Cooled \cup {"wrong"} => Goal
    BY <2>1, <2>2, <1>3
  <2>5. label \in {"limit", "send"} /\ r # s => Goal
    BY <2>3, <1>2
  <2>6. label = "limit" /\ CheckCooldown(r) /\ r = s => Goal
    BY <2>2, <2>3
  <2>7. label = "send" /\ CheckLimit(r) /\ r = s => Goal
    BY <2>2, <2>3 DEF CheckLimit
  <2> QED
    BY <2>4, <2>5, <2>6, <2>7
<1> HIDE DEF Goal
<1>7. ASSUME NEW r \in Calls, Handle(r) PROVE Goal
  <2>1. CASE Refuse(r) \/ Serve(r)
    BY <2>1, <1>4 DEF Refuse, Serve
  <2>2. CASE Find(r) \/ Create(r) \/ ReadUser(r) \/ Consume(r) \/ MarkVerified(r)
    BY <2>1, <2>2, <1>6 DEF Find, Create, ReadUser, Consume, MarkVerified, Labels
  <2>3. CASE CheckCooldown(r) \/ CheckLimit(r)
    BY <2>1, <2>3, <1>6 DEF CheckCooldown, CheckLimit, Labels
  <2>4. CASE Send(r)
    <3> SUFFICES ASSUME NEW c, call' = [call EXCEPT ![r].at = "persist", ![r].challenge = c]
                 PROVE  Goal
      BY <2>1, <2>4 DEF Send
    <3> DEFINE x == [call[r] EXCEPT !.at = "persist", !.challenge = c]
    <3>1. call' = [call EXCEPT ![r] = x]
      BY <1>1
    <3>2. x.at = "persist" /\ x.phone = call[r].phone /\ x.now = call[r].now
      BY <1>1 DEF Records
    <3> HIDE DEF x
    <3>3. call'[r] = x /\ \A q \in Calls \ {r} : call'[q] = call[q]
      BY <3>1, OthersStay
    <3>4. CASE r # s
      BY <3>3, <3>4, <1>2 DEF Goal
    <3>5. CASE r = s
      BY <3>2, <3>3, <3>5, <2>4 DEF Send, Goal
    <3> QED
      BY <3>3, <3>4, <3>5
  <2>5. CASE ReadAccount(r)
    <3> DEFINE x == [call[r] EXCEPT !.at = "active", !.known = verified[call[r].phone]]
    <3>1. Refuse(r) \/ call' = [call EXCEPT ![r] = x]
      BY <2>5, <1>1 DEF ReadAccount
    <3>2. x.at = "active"
      BY <1>1 DEF Records
    <3> QED
      BY <2>1, <3>1, <3>2, <1>3
  <2>6. CASE PickChallenge(r)
    <3> SUFFICES ASSUME ~Refuse(r) PROVE Goal
      BY <2>1
    <3> PICK c : call' = [call EXCEPT ![r].challenge = c,
                            ![r].at = IF call[r].code = c THEN "consume" ELSE "wrong"]
      BY <2>6 DEF PickChallenge
    <3> DEFINE x == [call[r] EXCEPT !.challenge = c,
                       !.at = IF call[r].code = c THEN "consume" ELSE "wrong"]
    <3>1. call' = [call EXCEPT ![r] = x]
      BY <1>1
    <3>2. x.at \in {"consume", "wrong"}
      BY <1>1 DEF Records
    <3> HIDE DEF x
    <3>3. call'[r] = x /\ \A q \in Calls \ {r} : call'[q] = call[q]
      BY <3>1, OthersStay
    <3>4. CASE r # s
      BY <3>3, <3>4, <1>2 DEF Goal
    <3>5. CASE r = s
      BY <3>2, <3>3, <3>5, <2>6 DEF Goal
    <3> QED
      BY <3>3, <3>4, <3>5
  <2>7. CASE ReadSession(r)
    <3> DEFINE x == [call[r] EXCEPT !.at = "user", !.phone = holder[call[r].token]]
    <3>1. Refuse(r) \/ call' = [call EXCEPT ![r] = x]
      BY <2>7, <1>1 DEF ReadSession
    <3>2. x.at = "user"
      BY <1>1 DEF Records
    <3> QED
      BY <2>1, <3>1, <3>2, <1>3
  <2>8. CASE Persist(r) \/ CountWrong(r) \/ OpenSession(r) \/ Touch(r)
    BY <2>1, <2>8 DEF Persist, CountWrong, OpenSession, Touch
  <2> QED
    BY <1>7, <2>2, <2>3, <2>4, <2>5, <2>6, <2>7, <2>8 DEF Handle
<1>8. ASSUME UNCHANGED call PROVE Goal
  BY <1>8, <1>2 DEF Goal
<1>9. ASSUME NEW r \in Calls, Fail(r) PROVE Goal
  BY <1>9, <1>4 DEF Fail, Refuse
<1>10. ASSUME NEW r \in Calls, NEW p, NEW c, NEW t,
              RequestCode(r, p) \/ EnterCode(r, p, c) \/ Present(r, t)
       PROVE  Goal
  BY <1>10, <1>5 DEF RequestCode, EnterCode, Present
<1>11. Goal
  BY <1>7, <1>8, <1>9, <1>10 DEF Next, Logout, Deactivate, Tick
<1> QED
  BY <1>11 DEF Goal

\* The rows a step leaves: only Persist adds one, only CountWrong counts.
LEMMA RowsStay ==
  ASSUME Next
  PROVE  /\ (\A r \in Calls : ~Persist(r)) => UNCHANGED <<owner, created>>
         /\ (\A r \in Calls : ~CountWrong(r)) => UNCHANGED attempts
<1>1. ASSUME NEW r \in Calls, Handle(r)
      PROVE  /\ ~Persist(r) => UNCHANGED <<owner, created>>
             /\ ~CountWrong(r) => UNCHANGED attempts
  BY <1>1 DEF Handle, Find, Create, CheckCooldown, CheckLimit, Send, Persist, ReadAccount,
     PickChallenge, CountWrong, Consume, MarkVerified, OpenSession, ReadSession, ReadUser,
     Touch, tables
<1>2. CASE ~ \E r \in Calls : Handle(r)
  BY <1>2 DEF Next, RequestCode, EnterCode, Present, Begin, Fail, Logout, Deactivate,
     Tick, tables
<1> QED
  BY <1>1, <1>2

-----------------------------------------------------------------------------
(* Rows and calls on their way, together                                   *)

\* What Persist leaves: the row of its call, and the call gone.
LEMMA Persisted ==
  ASSUME IInv, NEW r \in Calls, Persist(r)
  PROVE  LET k == call[r].challenge IN
         /\ k \in Challenges /\ call[r].phone \in Phones /\ owner[k] = NoPhone
         /\ owner'[k] = call[r].phone /\ created'[k] = call[r].now
         /\ \A c \in Challenges \ {k} : owner'[c] = owner[c] /\ created'[c] = created[c]
         /\ call'[r].at = "idle" /\ \A s \in Calls \ {r} : call'[s] = call[s]
         /\ call[r].at = "persist" /\ UNCHANGED attempts
<1>1. call[r].at = "persist" /\ call[r].challenge \in Challenges
      /\ owner[call[r].challenge] = NoPhone /\ call[r].phone \in Phones
  BY DEF Persist, IInv, InFlight, CallShape, Calling
<1>2. call' = [call EXCEPT ![r] = Idle(TRUE)]
  BY DEF Persist, Serve
<1>3. Idle(TRUE).at = "idle"
  BY DEF Idle
<1> QED
  BY <1>1, <1>2, <1>3 DEF Persist, IInv, TypeOK

\* The step from the one to the other does not raise the sum.
LEMMA PersistSum ==
  ASSUME IInv, NEW r \in Calls, Persist(r),
         NEW steps \in {Cooled, Limited}, NEW p \in Phones, NEW a \in Int, NEW b \in Int
  PROVE  Sum(steps, p, a, b)' <= Sum(steps, p, a, b)
<1> DEFINE k == call[r].challenge
           S == Stored(p, a, b)
           C == Coming(steps, p, a, b)
           In == call[r].phone = p /\ a <= call[r].now /\ call[r].now <= b
<1>1. /\ k \in Challenges /\ owner[k] = NoPhone /\ p # NoPhone
      /\ owner'[k] = call[r].phone /\ created'[k] = call[r].now
      /\ \A c \in Challenges \ {k} : owner'[c] = owner[c] /\ created'[c] = created[c]
      /\ call'[r].at = "idle" /\ \A s \in Calls \ {r} : call'[s] = call[s]
      /\ call[r].at \in steps /\ "idle" \notin steps
  BY Persisted, SignInAssumption DEF Cooled, Limited
<1>2. k \notin S
  BY <1>1 DEF Stored, Of
<1>3. C' = C \ {r}
  BY <1>1 DEF Coming
<1>4. IsFiniteSet(S) /\ IsFiniteSet(C) /\ Cardinality(S) \in Nat /\ Cardinality(C) \in Nat
  BY StoredCount, ComingCount
<1>5. CASE In
  <2>1. S' = S \cup {k}
    BY <1>1, <1>5 DEF Stored, Of
  <2>2. r \in C
    BY <1>1, <1>5 DEF Coming
  <2>3. Cardinality(S') = Cardinality(S) + 1
    BY <1>2, <1>4, <2>1, FS_AddElement
  <2>4. Cardinality(C') = Cardinality(C) - 1
    <3>1. Cardinality(C \ {r}) = Cardinality(C) - 1
      <4> HIDE DEF C
      <4> QED
        BY <1>4, <2>2, FS_RemoveElement
    <3> QED
      BY <3>1, <1>3
  <2> HIDE DEF S, C
  <2>5. Cardinality(S') + Cardinality(C') <= Cardinality(S) + Cardinality(C)
    BY <2>3, <2>4, <1>4
  <2> QED
    BY <2>5 DEF Sum, S, C
<1>6. CASE ~In
  <2>1. S' = S
    BY <1>1, <1>6 DEF Stored, Of
  <2>2. r \notin C
    BY <1>6 DEF Coming
  <2>3. C' = C
    BY <1>3, <2>2
  <2> QED
    BY <2>1, <2>3, <1>4 DEF Sum
<1> QED
  BY <1>5, <1>6

\* A step that stores nothing and lets nobody in does not raise it either.
LEMMA QuietSum ==
  ASSUME UNCHANGED <<owner, created>>,
         NEW steps, NEW p, NEW a, NEW b,
         Coming(steps, p, a, b)' \subseteq Coming(steps, p, a, b)
  PROVE  Sum(steps, p, a, b)' <= Sum(steps, p, a, b)
<1>1. Stored(p, a, b)' = Stored(p, a, b)
  BY DEF Stored, Of
<1>2. Cardinality(Coming(steps, p, a, b)') <= Cardinality(Coming(steps, p, a, b))
      /\ Cardinality(Coming(steps, p, a, b)') \in Nat
  BY ComingCount, FS_Subset, FS_CardinalityType
<1>3. Cardinality(Stored(p, a, b)) \in Nat /\ Cardinality(Coming(steps, p, a, b)) \in Nat
  BY StoredCount, ComingCount
<1> QED
  BY <1>1, <1>2, <1>3 DEF Sum

\* After a check that passed there is room for every call that may follow.
LEMMA OpenSum ==
  ASSUME UNCHANGED <<owner, created>>,
         NEW steps, NEW p, NEW a, NEW b, NEW limit \in Nat,
         Cardinality(Stored(p, a, b)) < limit
  PROVE  Sum(steps, p, a, b)' <= limit - 1 + Cardinality(Calls)
<1>1. Stored(p, a, b)' = Stored(p, a, b)
  BY DEF Stored, Of
<1>2. Coming(steps, p, a, b)' \subseteq Calls
  BY DEF Coming
<1>3. Cardinality(Coming(steps, p, a, b)') \in Nat
      /\ Cardinality(Coming(steps, p, a, b)') <= Cardinality(Calls)
  BY <1>2, SomeCalls
<1>4. Cardinality(Stored(p, a, b)) \in Nat /\ Cardinality(Calls) \in Nat
  BY StoredCount, CallsCount
<1> QED
  BY <1>1, <1>3, <1>4 DEF Sum

\* The daily limit: a call that enters a window found it with room, for the
\* window it counted is no smaller.
LEMMA DailyStep == IInv /\ DailySum /\ Next => DailySum'
<1> SUFFICES ASSUME IInv, DailySum, Next, NEW p \in Phones, NEW t \in Times
             PROVE  Sum(Limited, p, t - Day, t)' <= DailyLimit - 1 + Cardinality(Calls)
  BY DEF DailySum
<1> DEFINE a == t - Day
           bound == DailyLimit - 1 + Cardinality(Calls)
<1>1. t \in Nat /\ a \in Int /\ bound \in Int
  BY TimesType, LimitTypes, CallsCount
<1>2. Sum(Limited, p, a, t) <= bound
  BY DEF DailySum
<1>3. Sum(Limited, p, a, t) \in Nat /\ Sum(Limited, p, a, t)' \in Int
  <2>1. Stored(p, a, t)' \subseteq Challenges /\ Coming(Limited, p, a, t)' \subseteq Calls
    BY DEF Stored, Of, Coming
  <2>2. Cardinality(Stored(p, a, t)') \in Nat /\ Cardinality(Coming(Limited, p, a, t)') \in Nat
    BY <2>1, SignInAssumption, FS_Subset, FS_CardinalityType
  <2> QED
    BY <2>2, StoredCount, ComingCount DEF Sum
<1>4. CASE \E r \in Calls : Persist(r)
  <2>1. Sum(Limited, p, a, t)' <= Sum(Limited, p, a, t)
    BY <1>1, <1>4, PersistSum
  <2> QED
    BY <2>1, <1>1, <1>2, <1>3
<1>5. CASE \A r \in Calls : ~Persist(r)
  <2>1. UNCHANGED <<owner, created>>
    BY <1>5, RowsStay
  <2>2. CASE Coming(Limited, p, a, t)' \subseteq Coming(Limited, p, a, t)
    <3>1. Sum(Limited, p, a, t)' <= Sum(Limited, p, a, t)
      BY <2>1, <2>2, QuietSum
    <3> QED
      BY <3>1, <1>1, <1>2, <1>3
  <2>3. CASE ~(Coming(Limited, p, a, t)' \subseteq Coming(Limited, p, a, t))
    <3>1. PICK s \in Calls :
            /\ call'[s].at \in Limited /\ call'[s].phone = p
            /\ a <= call'[s].now /\ call'[s].now <= t
            /\ s \notin Coming(Limited, p, a, t)
      BY <2>3 DEF Coming
    <3>2. /\ CheckLimit(s) /\ call[s].phone = p
          /\ a <= call[s].now /\ call[s].now <= t
      BY <3>1, Entering DEF Coming, Cooled
    <3>3. call'[s].at # "idle"
      BY <3>1 DEF Limited
    <3>4. ~Refuse(s)
      BY <3>3 DEF Refuse, IInv, TypeOK, Idle
    <3> DEFINE W == CreatedSince(p, call[s].now - Day)
    <3>5. Cardinality(W) < DailyLimit
      BY <3>2, <3>4 DEF CheckLimit
    <3>6. call[s].now \in Nat
      BY TimesType DEF IInv, TypeOK
    <3>7. Stored(p, a, t) \subseteq W
      <4> SUFFICES ASSUME NEW c \in Challenges, owner[c] = p, t - Day <= created[c]
                   PROVE  created[c] >= call[s].now - Day
        BY DEF Stored, Of, CreatedSince
      <4>1. created[c] \in Nat
        BY TimesType DEF IInv, TypeOK
      <4> QED
        BY <4>1, <3>2, <3>6, <1>1, LimitTypes
    <3>8. IsFiniteSet(W) /\ Cardinality(W) \in Nat
      <4>1. W \subseteq Challenges
        BY DEF CreatedSince, Of
      <4> QED
        BY <4>1, SignInAssumption, FS_Subset, FS_CardinalityType
    <3>9. Cardinality(Stored(p, a, t)) <= Cardinality(W)
      BY <3>7, <3>8, FS_Subset
    <3> HIDE DEF W
    <3>10. Cardinality(Stored(p, a, t)) < DailyLimit
      BY <3>5, <3>8, <3>9, StoredCount, LimitTypes
    <3> QED
      BY <3>10, <2>1, LimitTypes, OpenSum
  <2> QED
    BY <2>2, <2>3
<1> QED
  BY <1>4, <1>5

\* A phone with codes has a newest one: the code just stored, or the one before.
LEMMA NewestStep == IInv /\ HasNewest /\ Next => HasNewest'
<1> SUFFICES ASSUME IInv, HasNewest, Next, NEW p \in Phones, Of(p)' # {}
             PROVE  Newest(Of(p))' # {}
  BY DEF HasNewest
<1>1. \A c \in Challenges : created[c] \in Nat
  BY TimesType DEF IInv, TypeOK
<1>2. CASE \A r \in Calls : ~Persist(r)
  BY <1>2, RowsStay DEF HasNewest, Of, Newest
<1>3. ASSUME NEW r \in Calls, Persist(r) PROVE Newest(Of(p))' # {}
  <2> DEFINE k == call[r].challenge
  <2>1. /\ k \in Challenges /\ owner[k] = NoPhone /\ p # NoPhone
        /\ owner'[k] = call[r].phone /\ created'[k] = call[r].now
        /\ \A c \in Challenges \ {k} : owner'[c] = owner[c] /\ created'[c] = created[c]
    BY <1>3, Persisted, SignInAssumption
  <2>2. created'[k] \in Nat
    BY <2>1, TimesType DEF IInv, TypeOK
  <2>3. k \notin Of(p) /\ Of(p) \subseteq Challenges
    BY <2>1 DEF Of
  <2> HIDE DEF k
  <2>4. CASE Of(p) = {}
    <3>1. \A c \in Of(p)' : c = k
      BY <2>1, <2>4 DEF Of
    <3> QED
      BY <3>1, <2>2 DEF Newest
  <2>5. CASE Of(p) # {}
    <3>1. PICK m \in Of(p) : \A d \in Of(p) : created[d] <= created[m]
      BY <2>5 DEF HasNewest, Newest
    <3>2. Of(p)' \subseteq Of(p) \cup {k} /\ m \in Of(p)' /\ m # k
      BY <2>1, <2>3 DEF Of
    <3>3. \A d \in Of(p) : created'[d] = created[d] /\ created[d] <= created'[m]
      BY <2>1, <2>3, <3>1
    <3>4. CASE created'[k] <= created'[m]
      <4>1. \A d \in Of(p)' : created'[d] <= created'[m]
        BY <3>2, <3>3, <3>4
      <4> QED
        BY <4>1, <3>2 DEF Newest
    <3>5. CASE k \in Of(p)' /\ ~(created'[k] <= created'[m])
      <4>1. \A d \in Of(p) : created'[d] <= created'[k]
        BY <1>1, <2>2, <2>3, <3>1, <3>2, <3>3, <3>5
      <4>2. \A d \in Of(p)' : created'[d] <= created'[k]
        BY <4>1, <3>2, <2>2
      <4> QED
        BY <4>2, <3>5 DEF Newest
    <3>6. CASE k \notin Of(p)'
      <4>1. \A d \in Of(p)' : created'[d] <= created'[m]
        BY <3>2, <3>3, <3>6
      <4> QED
        BY <4>1, <3>2 DEF Newest
    <3> QED
      BY <3>4, <3>5, <3>6
  <2> QED
    BY <2>4, <2>5
<1> QED
  BY <1>2, <1>3

\* The cooldown: a call that passes it found every code of its phone a cooldown
\* older than its own time, so none in a window that holds that time.
LEMMA CooldownStep == IInv /\ HasNewest /\ CooldownSum /\ Next => CooldownSum'
<1> SUFFICES ASSUME IInv, HasNewest, CooldownSum, Next, NEW p \in Phones, NEW t \in Times
             PROVE  Sum(Cooled, p, t - Cooldown + 1, t)' <= Cardinality(Calls)
  BY DEF CooldownSum
<1> DEFINE a == t - Cooldown + 1
<1>1. t \in Nat /\ a \in Int /\ Cardinality(Calls) \in Nat
  BY TimesType, LimitTypes, CallsCount
<1>2. Sum(Cooled, p, a, t) <= Cardinality(Calls)
  BY DEF CooldownSum
<1>3. Sum(Cooled, p, a, t) \in Nat /\ Sum(Cooled, p, a, t)' \in Int
  <2>1. Stored(p, a, t)' \subseteq Challenges /\ Coming(Cooled, p, a, t)' \subseteq Calls
    BY DEF Stored, Of, Coming
  <2>2. Cardinality(Stored(p, a, t)') \in Nat /\ Cardinality(Coming(Cooled, p, a, t)') \in Nat
    BY <2>1, SignInAssumption, FS_Subset, FS_CardinalityType
  <2> QED
    BY <2>2, StoredCount, ComingCount DEF Sum
<1>4. CASE \E r \in Calls : Persist(r)
  <2>1. Sum(Cooled, p, a, t)' <= Sum(Cooled, p, a, t)
    BY <1>1, <1>4, PersistSum
  <2> QED
    BY <2>1, <1>1, <1>2, <1>3
<1>5. CASE \A r \in Calls : ~Persist(r)
  <2>1. UNCHANGED <<owner, created>>
    BY <1>5, RowsStay
  <2>2. CASE Coming(Cooled, p, a, t)' \subseteq Coming(Cooled, p, a, t)
    <3>1. Sum(Cooled, p, a, t)' <= Sum(Cooled, p, a, t)
      BY <2>1, <2>2, QuietSum
    <3> QED
      BY <3>1, <1>1, <1>2, <1>3
  <2>3. CASE ~(Coming(Cooled, p, a, t)' \subseteq Coming(Cooled, p, a, t))
    <3>1. PICK s \in Calls :
            /\ call'[s].at \in Cooled /\ call'[s].phone = p
            /\ a <= call'[s].now /\ call'[s].now <= t
            /\ s \notin Coming(Cooled, p, a, t)
      BY <2>3 DEF Coming
    <3>2. /\ CheckCooldown(s) /\ call[s].phone = p
          /\ a <= call[s].now /\ call[s].now <= t
      BY <3>1, Entering DEF Coming
    <3>3. call'[s].at # "idle"
      BY <3>1 DEF Cooled, Limited
    <3>4. ~Refuse(s)
      BY <3>3 DEF Refuse, IInv, TypeOK, Idle
    <3>5. \A c \in Newest(Of(p)) : ~(call[s].now - created[c] < Cooldown)
      BY <3>2, <3>4 DEF CheckCooldown, LastCreated
    <3>6. call[s].now \in Nat /\ \A c \in Challenges : created[c] \in Nat
      BY TimesType DEF IInv, TypeOK
    <3>7. Stored(p, a, t) = {}
      <4> SUFFICES ASSUME NEW c \in Of(p), a <= created[c] PROVE FALSE
        BY DEF Stored
      <4>1. PICK m \in Of(p) : /\ \A d \in Of(p) : created[d] <= created[m]
                               /\ m \in Newest(Of(p))
        BY DEF HasNewest, Newest
      <4>2. created[c] \in Nat /\ created[m] \in Nat /\ created[c] <= created[m]
        BY <3>6, <4>1 DEF Of
      <4>3. ~(call[s].now - created[m] < Cooldown)
        BY <3>5, <4>1
      <4> QED
        BY <4>2, <4>3, <3>2, <3>6, <1>1, LimitTypes
    <3>8. Cardinality(Stored(p, a, t)) < 1
      BY <3>7, EmptyCount
    <3>9. Sum(Cooled, p, a, t)' <= 1 - 1 + Cardinality(Calls)
      <4> HIDE DEF a
      <4> QED
        BY <3>8, <2>1, OpenSum
    <3> QED
      BY <3>9, <1>1
  <2> QED
    BY <2>2, <2>3
<1> QED
  BY <1>4, <1>5

\* The attempts: a call that is about to count one read fewer than the limit.
LEMMA AttemptsStep == IInv /\ AttemptsSum /\ Next => AttemptsSum'
<1> SUFFICES ASSUME IInv, AttemptsSum, Next, NEW c \in Challenges
             PROVE  attempts'[c] + Cardinality(Counting(c)')
                      <= MaxAttempts - 1 + Cardinality(Calls)
  BY DEF AttemptsSum
<1> DEFINE bound == MaxAttempts - 1 + Cardinality(Calls)
           C == Counting(c)
<1>1. /\ bound \in Int /\ attempts[c] \in Nat /\ Cardinality(Calls) \in Nat
      /\ attempts[c] + Cardinality(C) <= bound
  BY LimitTypes, CallsCount DEF IInv, TypeOK, AttemptsSum
<1>2. /\ IsFiniteSet(C) /\ Cardinality(C) \in Nat
      /\ Cardinality(C') \in Nat /\ Cardinality(C') <= Cardinality(Calls)
  <2>1. C' \subseteq Calls
    BY DEF Counting
  <2> QED
    BY <2>1, CountingCount, SomeCalls
<1>3. ASSUME C' \subseteq C, attempts'[c] = attempts[c]
      PROVE attempts'[c] + Cardinality(C') <= bound
  <2>1. Cardinality(C') <= Cardinality(C)
    BY <1>2, <1>3, FS_Subset
  <2> HIDE DEF C, bound
  <2> QED
    BY <2>1, <1>1, <1>2, <1>3
<1>4. ASSUME NEW r \in Calls, CountWrong(r) PROVE attempts'[c] + Cardinality(C') <= bound
  <2>1. /\ call[r].at = "wrong" /\ attempts' = [attempts EXCEPT ![call[r].challenge] = @ + 1]
        /\ call' = [call EXCEPT ![r] = Idle(FALSE)] /\ Idle(FALSE).at = "idle"
    BY <1>4 DEF CountWrong, Refuse, Idle
  <2>2. call'[r].at = "idle" /\ \A s \in Calls \ {r} : call'[s] = call[s]
    BY <2>1, OthersStay
  <2>3. C' = C \ {r}
    BY <2>2 DEF Counting
  <2>4. CASE call[r].challenge # c
    <3>1. attempts'[c] = attempts[c]
      BY <2>1, <2>4 DEF IInv, TypeOK
    <3> QED
      BY <3>1, <2>3, <1>3
  <2>5. CASE call[r].challenge = c
    <3>1. r \in C /\ attempts'[c] = attempts[c] + 1
      BY <2>1, <2>5 DEF Counting, IInv, TypeOK
    <3>2. Cardinality(C \ {r}) = Cardinality(C) - 1
      <4> HIDE DEF C
      <4> QED
        BY <1>2, <3>1, FS_RemoveElement
    <3>3. Cardinality(C') = Cardinality(C) - 1
      BY <3>2, <2>3
    <3> HIDE DEF C, bound
    <3> QED
      BY <3>1, <3>3, <1>1, <1>2
  <2> QED
    BY <2>4, <2>5
<1>5. CASE \A r \in Calls : ~CountWrong(r)
  <2>1. attempts'[c] = attempts[c]
    BY <1>5, RowsStay
  <2>2. CASE ~(C' \subseteq C)
    <3>1. PICK s \in Calls : call'[s].at = "wrong" /\ call'[s].challenge = c /\ s \notin C
      BY <2>2 DEF Counting
    <3>2. PickChallenge(s)
      BY <3>1, Entering DEF Counting
    <3>3. ~Refuse(s)
      BY <3>1 DEF Refuse, IInv, TypeOK, Idle
    <3>4. PICK d \in Challenges :
            /\ attempts[d] < MaxAttempts
            /\ call' = [call EXCEPT ![s].challenge = d,
                          ![s].at = IF call[s].code = d THEN "consume" ELSE "wrong"]
      BY <3>2, <3>3 DEF PickChallenge, Newest, Active, Of
    <3>5. call'[s].challenge = d
      BY <3>4 DEF IInv, TypeOK
    <3>6. attempts[c] < MaxAttempts
      BY <3>1, <3>4, <3>5
    <3>7. attempts'[c] + Cardinality(C') <= bound
      <4> HIDE DEF C
      <4> QED
        BY <3>6, <2>1, <1>1, <1>2, LimitTypes
    <3> QED
      BY <3>7
  <2> QED
    BY <2>1, <2>2, <1>3
<1> QED
  BY <1>4, <1>5

-----------------------------------------------------------------------------
(* The theorem                                                             *)

LEMMA StepLimits == IInv /\ LimitsInv /\ [Next]_vars => LimitsInv'
<1>1. IInv /\ LimitsInv /\ Next => LimitsInv'
  BY NewestStep, CooldownStep, DailyStep, AttemptsStep DEF LimitsInv, DailySum
<1>2. LimitsInv /\ UNCHANGED vars => LimitsInv'
  <2> SUFFICES ASSUME LimitsInv, UNCHANGED vars PROVE LimitsInv'
    OBVIOUS
  <2>1. UNCHANGED <<owner, created, attempts, call>>
    BY DEF vars, tables
  <2> QED
    BY <2>1 DEF LimitsInv, AttemptsSum, CooldownSum, DailySum, HasNewest, Sum, Stored,
       Coming, Counting, Of, Newest
<1> QED
  BY <1>1, <1>2

LEMMA LimitsFollow == IInv /\ LimitsInv => LimitsOvershootByCalls
<1> SUFFICES ASSUME IInv, LimitsInv PROVE LimitsOvershootByCalls
  OBVIOUS
<1>1. \A c \in Challenges : created[c] \in Nat /\ attempts[c] \in Nat
  BY TimesType DEF IInv, TypeOK
<1>2. AttemptsBound
  <2> SUFFICES ASSUME NEW c \in Challenges
               PROVE  attempts[c] <= MaxAttempts - 1 + Cardinality(Calls)
    BY DEF AttemptsBound
  <2>1. attempts[c] + Cardinality(Counting(c)) <= MaxAttempts - 1 + Cardinality(Calls)
    BY DEF LimitsInv, AttemptsSum
  <2> QED
    BY <2>1, <1>1, CountingCount, LimitTypes, CallsCount
<1>3. ASSUME NEW steps, NEW p, NEW a, NEW b
      PROVE  Cardinality(Stored(p, a, b)) <= Sum(steps, p, a, b)
             /\ Cardinality(Stored(p, a, b)) \in Nat /\ Sum(steps, p, a, b) \in Nat
  BY StoredCount, ComingCount DEF Sum
<1>4. CooldownBound
  <2> SUFFICES ASSUME NEW p \in Phones, NEW t \in Times
               PROVE  Cardinality({c \in Of(p) : created[c] > t - Cooldown /\ created[c] <= t})
                        <= Cardinality(Calls)
    BY DEF CooldownBound
  <2> DEFINE a == t - Cooldown + 1
  <2>1. {c \in Of(p) : created[c] > t - Cooldown /\ created[c] <= t} = Stored(p, a, t)
    BY <1>1, TimesType, LimitTypes DEF Stored, Of
  <2>2. Sum(Cooled, p, a, t) <= Cardinality(Calls)
    BY DEF LimitsInv, CooldownSum
  <2>3. /\ Cardinality(Stored(p, a, t)) <= Sum(Cooled, p, a, t)
        /\ Cardinality(Stored(p, a, t)) \in Nat /\ Sum(Cooled, p, a, t) \in Nat
    BY <1>3
  <2> HIDE DEF a
  <2> QED
    BY <2>1, <2>2, <2>3, CallsCount
<1>5. DailyBound
  <2> SUFFICES ASSUME NEW p \in Phones, NEW t \in Times
               PROVE  Cardinality({c \in Of(p) : created[c] >= t - Day /\ created[c] <= t})
                        <= DailyLimit - 1 + Cardinality(Calls)
    BY DEF DailyBound
  <2> DEFINE a == t - Day
  <2>1. {c \in Of(p) : created[c] >= t - Day /\ created[c] <= t} = Stored(p, a, t)
    BY <1>1, TimesType, LimitTypes DEF Stored, Of
  <2>2. Sum(Limited, p, a, t) <= DailyLimit - 1 + Cardinality(Calls)
    BY DEF LimitsInv, DailySum
  <2>3. /\ Cardinality(Stored(p, a, t)) <= Sum(Limited, p, a, t)
        /\ Cardinality(Stored(p, a, t)) \in Nat /\ Sum(Limited, p, a, t) \in Nat
    BY <1>3
  <2> HIDE DEF a
  <2> QED
    BY <2>1, <2>2, <2>3, CallsCount, LimitTypes
<1> QED
  BY <1>2, <1>4, <1>5 DEF LimitsOvershootByCalls

\* However many sign-ins race, the wrong codes of a challenge, the codes of one
\* cooldown and the codes of a day pass their limits by no more than the calls in
\* flight (request_challenge, verify_challenge: every check is a transaction of
\* its own).
THEOREM LimitsOvershoot == Spec => []LimitsOvershootByCalls
  BY InitIInv, StepIInv, InitLimits, StepLimits, LimitsFollow, PTL DEF Spec

=============================================================================
