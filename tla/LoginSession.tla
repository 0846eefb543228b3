----------------------------- MODULE LoginSession -----------------------------
(***************************************************************************)
(* Signing in: MyQLoginSession (auth.py), for one session, with the        *)
(* identity server as its environment.                                     *)
(*                                                                         *)
(* Two calls walk through the server's pages: async_start up to the form   *)
(* for the one-time code, async_submit_mfa from it to the tokens.  Each    *)
(* step posts or gets a page and follows its redirects.  The only await is *)
(* for an answer, so an action is the arrival of a page and all that the   *)
(* code makes of it.                                                       *)
(*                                                                         *)
(* A form for the one-time code is known by the number of its issue.  A    *)
(* page is what its parsing makes of it: its location, or its form.        *)
(*                                                                         *)
(* Definitions that every module has carry a prefix here, for a module     *)
(* that extends this one and ConfigFlow, whose flows await these calls.    *)
(***************************************************************************)
EXTENDS Naturals

CONSTANTS
    MaxHops,     \* redirects followed after a request: 12 in the code
    MaxForms     \* bounds the forms for a code that the server issues

ASSUME HopsAssumption == MaxHops \in Nat /\ MaxForms \in Nat

VARIABLES
    call,        \* the call in progress: "none", "start", "submit"
    step,        \* what the request in flight is for
    hops,        \* redirects followed since
    form,        \* _mfa_form: the number of its issue, 0 for None
    issued,      \* forms for a code that the server issued
    missed,      \* history: since the last form it took, a form for a code may
                 \* have been issued that the code never saw, or passed over
    result       \* how the last call ended: "tokens", "mfa", or an exception

sessionVars == <<call, step, hops, form, issued, missed, result>>

StartSteps == {"authorize", "password", "method"}
SubmitSteps == {"code", "consent", "resume"}
ExchangeSteps == {"appcheck", "token"}

SessionErrors ==
    {"credentials", "challenge", "invalid_mfa", "client", "api", "auth", "other"}

\* Pages without a Location: one with a login form, with a validation error,
\* with a form for the code (for the method asked for, or another), with a
\* consent form at /consent, one there without it, a Cloudflare challenge, and
\* anything else.
Pages == {"login", "invalid", "otp", "otherOtp", "consent", "noConsent",
          "challenge", "bare"}
Otp == {"otp", "otherOtp"}

SessionInit ==
    /\ call = "none" /\ step = "idle" /\ hops = 0
    /\ form = 0 /\ issued = 0 /\ missed = FALSE /\ result = "none"

-----------------------------------------------------------------------------
Request(s) == step' = s /\ hops' = 0 /\ UNCHANGED <<call, form, result>>

Returns(r) ==
    /\ call' = "none" /\ step' = "idle" /\ hops' = 0 /\ result' = r
    /\ UNCHANGED form

\* _set_mfa_form: the form of the page that has just arrived.
ReturnsWithForm(r) ==
    /\ call' = "none" /\ step' = "idle" /\ hops' = 0 /\ result' = r
    /\ form' = issued'

Start ==
    /\ call = "none" /\ result = "none"
    /\ call' = "start" /\ step' = "authorize" /\ hops' = 0
    /\ UNCHANGED <<form, issued, missed, result>>

\* The flow submits again after a wrong code and after a failed request; after
\* any other error it has dropped this session.
SubmitMfa ==
    /\ call = "none" /\ form # 0
    /\ result \in {"mfa", "invalid_mfa", "client", "other"}
    /\ call' = "submit" /\ step' = "code" /\ hops' = 0
    /\ UNCHANGED <<form, issued, missed, result>>

-----------------------------------------------------------------------------
(* _follow_redirects.                                                      *)

\* The answer to the last redirect that may be followed is not looked at.
Followable == step \in StartSteps \cup SubmitSteps /\ hops < MaxHops

Redirect ==
    /\ Followable
    /\ hops' = hops + 1
    /\ UNCHANGED <<call, step, form, issued, missed, result>>

\* Mutant of TooManyRedirects: the step is tried again.
TriesAgain ==
    /\ step \in StartSteps \cup SubmitSteps /\ hops = MaxHops
    /\ Request(step)
    /\ UNCHANGED <<issued, missed>>

TooManyRedirects ==
    /\ step \in StartSteps \cup SubmitSteps /\ hops = MaxHops
    /\ Returns("api")
    /\ issued' \in {issued, issued + 1} /\ issued' <= MaxForms
    /\ UNCHANGED missed

\* The redirect URI: with an authorization code, which is exchanged, or none.
Callback ==
    /\ Followable
    /\ Request("appcheck") \/ Returns("api")
    /\ UNCHANGED <<issued, missed>>

-----------------------------------------------------------------------------
(* What each step makes of the page its redirects ended at.                *)

\* A page arrives; one with a form for the code is a new issue of it.
Arrives(page) ==
    /\ Followable
    /\ issued' = IF page \in Otp THEN issued + 1 ELSE issued
    /\ issued' <= MaxForms
    /\ missed' = (missed /\ page \notin Otp)

\* async_start: the form for the password.
LoginForm(page) ==
    /\ step = "authorize" /\ Arrives(page)
    /\ CASE page = "challenge"       -> Returns("challenge")
         [] page \in {"login", "invalid"} -> Request("password")
         [] OTHER                    -> Returns("api")

\* async_start, _select_mfa_method: the method is switched unless the form is
\* already for the one asked for.
PasswordAnswer(page) ==
    /\ step = "password" /\ Arrives(page)
    /\ CASE page = "challenge" -> Returns("challenge")
         [] page = "invalid"   -> Returns("credentials")
         [] page = "otp"       -> ReturnsWithForm("mfa")
         [] page = "otherOtp"  -> Request("method")
         [] OTHER              -> Returns("api")

MethodAnswer(page) ==
    /\ step = "method" /\ Arrives(page)
    /\ CASE page = "challenge" -> Returns("challenge")
         [] page \in Otp       -> ReturnsWithForm("mfa")
         [] OTHER              -> Returns("api")

\* Mutant of Rejects: the form of the answer is not taken.
RejectsOnly(page) == Returns("invalid_mfa")

\* async_submit_mfa: no code for tokens came of it; the next submission uses
\* the form of this answer, if it has one.
Rejects(page) ==
    IF page \in Otp THEN ReturnsWithForm("invalid_mfa") ELSE Returns("invalid_mfa")

\* async_submit_mfa, _follow_consent.
CodeAnswer(page) ==
    /\ step = "code" /\ Arrives(page)
    /\ CASE page = "consent"   -> Request("consent")
         [] page = "noConsent" -> Returns("api")
         [] OTHER              -> Rejects(page)

\* A consent that is answered by a page with status 200 is resumed at the return
\* URL, if that is the identity server's own; the page is not looked at, whether
\* or not it has a form for a code.
ConsentGiven ==
    /\ step = "consent" /\ hops = 0
    /\ Request("resume")
    /\ issued' \in {issued, issued + 1} /\ issued' <= MaxForms
    /\ missed' = (missed \/ issued' # issued)

ConsentAnswer(page) ==
    /\ step \in {"consent", "resume"} /\ Arrives(page)
    /\ Rejects(page)

-----------------------------------------------------------------------------
(* _async_exchange_code, and requests that fail.                           *)

AppCheckToken ==
    /\ step = "appcheck" /\ Request("token")
    /\ UNCHANGED <<issued, missed>>

\* The code that was exchanged is spent whether or not the answer is good.
TokenAnswer ==
    /\ step = "token" /\ Returns("tokens")
    /\ UNCHANGED <<issued, missed>>

ExchangeFails ==
    /\ step \in ExchangeSteps /\ (Returns("api") \/ Returns("auth"))
    /\ UNCHANGED <<issued, missed>>

\* A ClientError, or an exception of another kind (a total timeout); the server
\* may have answered with a form that never arrived.
RequestFails ==
    /\ step # "idle"
    /\ \E r \in {"client", "other"} : Returns(r)
    /\ issued' \in {issued, issued + 1} /\ issued' <= MaxForms
    /\ missed' = (missed \/ call = "submit")

AnswerArrives ==
    \/ Redirect \/ TooManyRedirects \/ Callback
    \/ \E page \in Pages : LoginForm(page) \/ PasswordAnswer(page)
                           \/ MethodAnswer(page) \/ CodeAnswer(page)
                           \/ ConsentAnswer(page)
    \/ ConsentGiven \/ AppCheckToken \/ TokenAnswer \/ ExchangeFails

SessionNext == Start \/ SubmitMfa \/ AnswerArrives \/ RequestFails

SessionSpec == SessionInit /\ [][SessionNext]_sessionVars

\* A request is answered, or fails at its timeout.
FairSessionSpec == SessionSpec /\ WF_sessionVars(AnswerArrives \/ RequestFails)

-----------------------------------------------------------------------------
(* Properties.                                                             *)

\* Types; a request is in flight exactly while a call is in progress, and one
\* for a code only when there is a form.
SessionTypeOK ==
    /\ call \in {"none", "start", "submit"}
    /\ step \in {"idle"} \cup StartSteps \cup SubmitSteps \cup ExchangeSteps
    /\ hops \in 0 .. MaxHops
    /\ form \in 0 .. issued /\ issued \in 0 .. MaxForms
    /\ missed \in BOOLEAN
    /\ result \in {"none", "tokens", "mfa"} \cup SessionErrors
    /\ (call = "none") = (step = "idle")
    /\ step \in StartSteps => call = "start"
    /\ step \in SubmitSteps => call = "submit" /\ form # 0

\* Whenever the user is asked for a code, it will go into the newest form that
\* the server issued, also when it is asked for again after a wrong one; except
\* if, since the last form was taken, an answer to a submission was lost or the
\* page that answered a consent was passed over with a form for a code on it.
FormIsCurrent ==
    result \in {"mfa", "invalid_mfa"} /\ call = "none" /\ ~missed
    => form = issued /\ form # 0

\* The types, and the form that a code goes into.
SessionConsistent == SessionTypeOK /\ FormIsCurrent

\* Every call ends, also when the server redirects for ever.
SessionCallsEnd == call # "none" ~> call = "none"
=============================================================================
