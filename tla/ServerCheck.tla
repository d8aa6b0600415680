------------------------------ MODULE ServerCheck ------------------------------
(***************************************************************************)
(* scripts/server_check.py: what an operator concludes from a report whose *)
(* input is one SSH session's output, which can end anywhere.              *)
(*                                                                         *)
(* A server s is what is true of the machine; cut is how many sections of  *)
(* the remote script's output arrived.                                     *)
(***************************************************************************)
EXTENDS Integers, Sequences, FiniteSets, SequencesExt

Sections ==
  <<"host", "disk", "env", "deploy", "containers", "frontend", "health", "alembic", "batches",
    "counts", "terms", "timers", "sshboot", "tls", "backup", "errors", "end">>
Services == {"nginx", "api", "postgres"}
Paths == {"/health", "/ready"}

Arrived(section, cut) == \E n \in 1..cut : Sections[n] = section

-----------------------------------------------------------------------------
(* The remote script's facts                                               *)

Up(s, service) == s.state[service] # "exited"

Serves(s, path) ==
  Up(s, "api") /\ (path = "/ready" => Up(s, "postgres") /\ s.pepperMatches)
Reachable(s, path) == Up(s, "nginx") /\ Serves(s, path)

\* compose ps does not list what has stopped.
Listed(s) == {service \in Services : Up(s, service)}

\* A psql that cannot connect prints a line too, and no word ERROR.
Revision(s) == IF Up(s, "postgres") THEN s.revision ELSE "message"

\* Where sshd listens after a reboot: the socket's ports if it is enabled,
\* else those of the configuration, if anything is enabled at all.
BootPorts(s) ==
  IF s.socketEnabled THEN s.socketPorts
  ELSE IF s.serviceEnabled THEN s.configPorts ELSE {}

-----------------------------------------------------------------------------
(* The report: check_public, analyse, check_ssh_boot                       *)

\* Mutant: no revision is no failure.
NoRevision_Ignored(s, cut) == Arrived("alembic", cut) /\ Revision(s) = "ERROR"
\* An empty section fails, a message that is not the head's name only warns.
NoRevision(s, cut) == ~Arrived("alembic", cut) \/ Revision(s) = "ERROR"

\* Mutant: the service is asked first.
PortLost_Service(s) ==
  s.session \notin (IF s.serviceEnabled THEN s.configPorts ELSE s.socketPorts)
\* An unknown session port only warns.
PortLost(s) ==
  s.session # "unknown" /\
    s.session \notin (IF s.socketEnabled THEN s.socketPorts
                      ELSE IF s.serviceEnabled THEN s.configPorts ELSE {})

Failures(s, cut) ==
  {check \in {"public", "ssh", "env", "containers", "in-container", "alembic", "terms", "ssh-boot"} :
     CASE check = "public" -> \E path \in Paths : ~Reachable(s, path)
       [] check = "ssh" -> cut = 0
       [] check = "env" ->
            Arrived("env", cut) /\ s.production /\ s.otpTestNumbers = "true"
       [] check = "containers" ->
            cut > 0 /\ (~Arrived("containers", cut) \/ Listed(s) = {} \/
                          \E service \in Listed(s) : s.state[service] # "healthy")
       [] check = "in-container" ->
            Arrived("health", cut) /\ \E path \in Paths : ~Serves(s, path)
       [] check = "alembic" -> cut > 0 /\ NoRevision(s, cut)
       [] check = "terms" ->
            Arrived("terms", cut) /\ Up(s, "postgres") /\ s.documents # {}
              /\ s.termsVersion \notin s.documents \cup {"unset"}
       [] check = "ssh-boot" -> Arrived("sshboot", cut) /\ PortLost(s)}

Warnings(s, cut) ==
  {check \in {"remote", "alembic", "ssh-boot"} :
     CASE check = "remote" -> cut > 0 /\ ~Arrived("end", cut)
       [] check = "alembic" -> cut > 0 /\ ~NoRevision(s, cut) /\ Revision(s) # "head"
       [] check = "ssh-boot" ->
            cut > 0 /\ (~Arrived("sshboot", cut) \/ s.session = "unknown")}

ExitsZero(s, cut) == Failures(s, cut) = {}

-----------------------------------------------------------------------------
(* Properties                                                              *)

\* An exit status of 0 means that the application serves, wherever the output
\* ended: what was cut off before the answer is a failure, not silence.  With
\* nothing warned of either, the database is at the local head and the next
\* reboot does not lock the operator out.
VerdictIsSound(s, cut) ==
  ExitsZero(s, cut) =>
    /\ \A service \in Services : s.state[service] = "healthy"
    /\ s.pepperMatches /\ s.revision # "ERROR"
    /\ ~(s.production /\ s.otpTestNumbers = "true")
    /\ Warnings(s, cut) = {} =>
         /\ s.revision = "head" /\ s.session \in BootPorts(s)
         /\ s.documents = {} \/ s.termsVersion \in s.documents \cup {"unset"}

\* And a server of which all this is true is not reported as failing.
HealthyPasses(s, cut) ==
  /\ cut = Len(Sections) /\ s.pepperMatches /\ s.revision = "head"
  /\ \A service \in Services : s.state[service] = "healthy"
  /\ ~s.production \/ s.otpTestNumbers # "true"
  /\ s.session \in BootPorts(s) /\ s.termsVersion \in s.documents
  => ExitsZero(s, cut)

-----------------------------------------------------------------------------
ServerQuestions ==
  LET Fine == [state |-> [service \in Services |-> "healthy"], pepperMatches |-> TRUE,
               revision |-> "head", production |-> TRUE, otpTestNumbers |-> "unset",
               termsVersion |-> "v2", documents |-> {"v1", "v2"}, session |-> "2222",
               socketEnabled |-> TRUE, serviceEnabled |-> FALSE,
               socketPorts |-> {"2222"}, configPorts |-> {"22"}] IN
  {[Fine EXCEPT !.state = state, !.pepperMatches = matches, !.revision = revision] :
     state \in [Services -> {"healthy", "unhealthy", "exited"}], matches \in BOOLEAN,
     revision \in {"head", "old", "ERROR"}}
  \cup
  {[Fine EXCEPT !.production = production, !.otpTestNumbers = test, !.documents = documents,
                !.termsVersion = version] :
     production \in BOOLEAN, test \in {"unset", "true"},
     documents \in {{}, {"v1"}, {"v1", "v2"}}, version \in {"unset", "v2"}}
  \cup
  {[Fine EXCEPT !.session = session, !.socketEnabled = socket, !.serviceEnabled = service,
                !.socketPorts = socketPorts, !.configPorts = ports] :
     session \in {"unknown", "22", "2222"}, socket \in BOOLEAN, service \in BOOLEAN,
     socketPorts \in SUBSET {"22", "2222"}, ports \in SUBSET {"22", "2222"}}
=============================================================================
