------------------------------ MODULE MCServices ------------------------------
(***************************************************************************)
(* The services on small instances, and the pure functions, which are      *)
(* asked one question each.                                                *)
(***************************************************************************)
EXTENDS Services, TLC

CONSTANTS
  Red,     \* one of the releases of a code format
  Salt     \* one of the peppers

-----------------------------------------------------------------------------
(* Two flavors, a quota two runs can meet exactly; nobody asks for three   *)

Skus == <<"TO", "PR">>
Split(a, b) == "TO" :> a @@ "PR" :> b
PrintRequests ==
  {[kind |-> "run", k |-> 3, weights |-> Split(1, 1)],
   [kind |-> "run", k |-> 1, weights |-> Split(0, 2)],
   [kind |-> "loose", k |-> 1, weights |-> Split(2, 0)],
   [kind |-> "freeze", k |-> 0, weights |-> Split(0, 0)]}

-----------------------------------------------------------------------------
(* Accounts: two players, two spellings of one name, two referral codes    *)

Send == [nickname |-> None, terms |-> None, venue |-> None, avatar |-> None,
         display |-> None, referrer |-> None]
ProfileUpdates ==
  {Send,
   [Send EXCEPT !.nickname = "Nik", !.display = "Admin"],
   [Send EXCEPT !.nickname = "NIK", !.venue = "bar", !.avatar = "fox", !.referrer = "c1"],
   [Send EXCEPT !.nickname = "Admin"],
   [Send EXCEPT !.terms = "old"]}

NameKeys == "Nik" :> "nik" @@ "NIK" :> "nik" @@ "Admin" :> "admin"

-----------------------------------------------------------------------------
(* Media: an image of each kind, one too large, one that only looks like one *)

Image(name, size, magic) == [name |-> name, size |-> size, magic |-> magic]
Images ==
  {Image("a.png", 1, "png"), Image("b.png", 1, "jpg"), Image("c.webp", 2, "webp"),
   Image("d.png", 3, "png"), Image("e.png", 1, "svg"), Image("f.png", 0, "none")}

BoardLength == [today |-> 2]

-----------------------------------------------------------------------------
(* The middleware: reads and writes, with and without a session cookie     *)

Http(path, unsafe, cookie, header, origin) ==
  [path |-> path, unsafe |-> unsafe, cookie |-> cookie, header |-> header, origin |-> origin]
HttpRequests ==
  {Http("probe", FALSE, FALSE, FALSE, "none"),
   Http("probe", TRUE, TRUE, FALSE, "front"),
   Http("api", FALSE, TRUE, FALSE, "front"),
   Http("api", TRUE, TRUE, TRUE, "front"),
   Http("api", TRUE, TRUE, FALSE, "front"),
   Http("admin", TRUE, TRUE, FALSE, "own"),
   Http("admin", TRUE, TRUE, FALSE, "other")}

-----------------------------------------------------------------------------
(* Questions to the pure functions                                         *)

\* Three flavors, for the split alone.
Flavors == <<"TO", "PR", "AP">>

\* Codes over eight characters, with bodies of two and of three; 100 and up
\* are letters that no alphabet has.
O == 100
Format(body, groups) ==
  [base |-> 8, body |-> body, grouping |-> groups, aliases |-> O :> 0 @@ 104 :> 1]
CodeFormats == {Format(2, <<2, 1>>), Format(3, <<2, 2>>)}
Cities == <<101, O>> :> 6 @@ <<102, O>> :> 7 @@ <<102, 103>> :> 5
Dashes == {-1, -2}
Hash == -3
Scheme == -4
Slash == -5

\* Subscriber numbers of two digits; 10 is a plus, 11 a dash, 20 and up are
\* Persian digits, 30 is a digit of some other script.
Persian == 20 :> 0 @@ 28 :> 8 @@ 29 :> 9
Foreign == {30}
Typed ==
  UNION {[1..n -> {0, 8, 9, 10}] : n \in 0..6} \cup UNION {[1..n -> {0, 9, 30}] : n \in 1..4}

Words == 1..4

MCQuestions ==
  [code |->
     {[about |-> "code", city |-> city, body |-> <<a, b>>, format |-> Format(2, <<2, 1>>)] :
       city \in DOMAIN Cities, a \in 0..7, b \in 0..7} \cup
       {[about |-> "code", city |-> city, body |-> <<a, b, c>>, format |-> Format(3, <<2, 2>>)] :
       city \in DOMAIN Cities, a \in 0..7, b \in 0..7, c \in 0..7},
   split |->
     {[about |-> "split", k |-> k, weights |-> w] :
       k \in 0..9, w \in {w \in [SP!Flavors -> 0..4] : SP!ValidWeights(w)}},
   draw |->
     {[about |-> "draw", weights |-> weights, count |-> count,
       values |-> [n \in 1..4 |-> <<15, seeds[n], 0>>]] :
       weights \in [1..3 -> 0..3], count \in 0..4, seeds \in {<<3, 8, 1, 15>>, <<0, 5, 9, 2>>}},
   board |->
     {[about |-> "board", since |-> since,
       runs |-> {[player |-> of[t][1], score |-> of[t][2], at |-> t] :
       t \in {t \in 0..3 : of[t] # None}}] :
       since \in {0, 2}, of \in [0..3 -> {None} \cup {"a", "b", "c"} \X {1, 2}]},
   page |->
     {[about |-> "page", lines |-> [m \in DOMAIN kinds |-> [kind |-> kinds[m], text |-> m]]] :
       kinds \in UNION {[1..n -> LP!LineKinds] : n \in 0..4}},
   request |->
     {[about |-> "request", r |-> r] : r \in RP!RequestQuestions},
   redeem |->
     {[about |-> "redeem", r |-> r] : r \in RP!RedeemQuestions},
   finish |->
     {[about |-> "finish", r |-> r] : r \in RP!FinishQuestions},
   team |->
     {[about |-> "team", r |-> r] : r \in RP!TeamQuestions},
   claim |->
     {[about |-> "claim", r |-> r] : r \in RP!ClaimQuestions},
   phone |->
     {[about |-> "phone", raw |-> raw, filler |-> 11] : raw \in Typed},
   settings |->
     {[about |-> "settings", s |-> s] : s \in SE!SettingsQuestions},
   server |->
     {[about |-> "server", s |-> s, cut |-> cut] :
       s \in SC!ServerQuestions, cut \in 0..Len(SC!Sections)}]

-----------------------------------------------------------------------------
MCInit ==
  /\ Init
  /\ part # "api" => \A field \in DOMAIN apDeployment : ~apDeployment[field]
  \* Releases and peppers are alike: one of each is the oldest batch's.
  /\ stEnv = [spec |-> Red, pepper |-> Salt]

MCSpec == MCInit /\ [][Next]_vars

Symmetry == Permutations(Actors) \cup Permutations(acPlayers)
=============================================================================
