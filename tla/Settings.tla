------------------------------- MODULE Settings -------------------------------
(***************************************************************************)
(* Which configurations boot, and what a browser makes of them             *)
(* (core/config.py and the CORS middleware's arguments in app.py).         *)
(***************************************************************************)
EXTENDS FiniteSets

Environments == {"development", "demo", "staging", "production"}
\* An origin is told by how it can be reached.
Origins == {"any", "https", "http", "loopback"}

Deployed(s) == s.environment \in {"demo", "staging", "production"}
Strict(s) == s.environment \in {"staging", "production"}

\* Mutant: test numbers on wherever nothing is said.
TestNumbersEnabled_Default(s) == s.otpTestNumbers \in {"unset", "true"}
\* test_numbers_enabled
TestNumbersEnabled(s) ==
  IF s.otpTestNumbers = "unset" THEN s.environment \in {"development", "demo"}
  ELSE s.otpTestNumbers = "true"

\* secure_session_cookies
SecureCookies(s) == s.environment # "development"

\* _require_safe_origins: allowed, public_app_origin, terms_url, privacy_url.
SafeOrigins(s) == s.origins \cup s.links \subseteq {"https", "loopback"}

\* reject_local_database_outside_development
Boots(s) ==
  /\ Deployed(s) => ~s.localDatabase /\ s.pepper = "long"
  /\ s.sameSite = "none" => SecureCookies(s)
  /\ s.hostPrefix => SecureCookies(s)
  /\ s.environment = "production" =>
       s.termsRequired /\ ~TestNumbersEnabled(s) /\ ~s.allowList
  /\ Strict(s) => SafeOrigins(s) /\ s.adminSecret = "long" /\ s.totpKey = "long"

\* CORSMiddleware's arguments: no credentials for a bare wildcard.
AllowCredentials(s) == s.origins # {"any"}

-----------------------------------------------------------------------------
(* External: what a browser does with the session cookie                   *)

Kept(s, scheme) ==
  /\ SecureCookies(s) => scheme = "https"
  /\ s.sameSite = "none" \/ s.hostPrefix => SecureCookies(s)

-----------------------------------------------------------------------------
(* Properties                                                              *)

\* Whatever boots can sign people in: the browser keeps the cookie over
\* https, and in development over plain http too.
CookiesAreKept(s) ==
  Boots(s) => /\ Kept(s, IF s.environment = "development" THEN "http" ELSE "https")
              /\ Strict(s) => \A o \in s.origins : o \in {"https", "loopback"}

\* A server for real players cannot boot with what belongs to a test server,
\* nor answer everybody with credentials; and it has its keys.
ProductionIsStrict(s) ==
  Boots(s) /\ s.environment = "production" =>
    /\ ~TestNumbersEnabled(s) /\ ~s.allowList /\ s.termsRequired
    /\ ~(AllowCredentials(s) /\ "any" \in s.origins)
    /\ {s.pepper, s.adminSecret, s.totpKey} = {"long"} /\ ~s.localDatabase

\* Only the throwaway environments take test numbers unasked.
TestNumbersAreAskedFor(s) ==
  Boots(s) /\ TestNumbersEnabled(s) =>
    s.environment \in {"development", "demo"} \/ s.otpTestNumbers = "true"

-----------------------------------------------------------------------------
\* Only a strict environment asks for the admin panel's keys.
SettingsQuestions ==
  {s \in [environment : Environments, localDatabase : BOOLEAN, pepper : {"none", "short", "long"},
          sameSite : {"lax", "none"}, hostPrefix : BOOLEAN, termsRequired : BOOLEAN,
          otpTestNumbers : {"unset", "true", "false"}, allowList : BOOLEAN,
          origins : {{"any"}, {"https"}, {"any", "https"}, {"http", "https"}, {"loopback"}},
          links : {{}, {"http"}}, adminSecret : {"none", "long"}, totpKey : {"none", "long"}] :
     Strict(s) \/ (s.adminSecret = "none" /\ s.totpKey = "none")}
=============================================================================
