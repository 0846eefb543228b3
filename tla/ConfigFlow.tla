------------------------------ MODULE ConfigFlow ------------------------------
(***************************************************************************)
(* Configuration flows: MyQConfigFlow (config_flow.py).                    *)
(*                                                                         *)
(* Several flows run at once: a user adds an account, perhaps the same one *)
(* twice, or signs in again for an entry that exists.  A flow shows a form *)
(* and runs a handler when the form is sent; the handler's awaits are the  *)
(* login's calls and the listing of the doors.  Home Assistant sends a     *)
(* flow one form at a time.  It drops a flow when the user closes it or    *)
(* the entry it signs in for is removed, also while the flow's handler     *)
(* awaits: the handler goes on, and nothing tells it.                      *)
(*                                                                         *)
(* An account is its e-mail address, stripped and in lower case.  A login  *)
(* is known by the number of its HTTP session.  What a login's calls may   *)
(* return is LoginSession's result.                                        *)
(***************************************************************************)
EXTENDS Naturals, FiniteSets

CONSTANTS
    Flows,       \* bounds the flows there ever are
    Accounts,
    NoAccount,
    MaxLogins    \* bounds the logins

ASSUME FlowsAssumption == NoAccount \notin Accounts /\ MaxLogins \in Nat

Logins == 1 .. MaxLogins

VARIABLES
    stage,       \* each flow: "new"; its form: "form" (credentials), "mfa"; its
                 \* await: "login", "submit", "finish"; "over"
    back,        \* the form that is shown again if the handler raises
    dropped,     \* Home Assistant dropped the flow while its handler awaits:
                 \* "no", "closed" by the user, "removed" with its entry
    reauth,      \* _reauth_entry is set
    email,       \* _email
    login,       \* _login and _login_session: the number of it, or 0
    tokens,      \* the account that the tokens in hand are for
    error,       \* errors["base"] of the form
    made,        \* number of logins so far
    account,     \* each login: the account it signs in to
    open,        \* logins whose HTTP session was not detached
    entries      \* each account: the entries for it, each the account whose
                 \* tokens it has, with the flow that created it

vars == <<stage, back, dropped, reauth, email, login, tokens, error, made,
          account, open, entries>>

Awaiting == {"login", "submit", "finish"}

\* "login_failed" stands for the four errors of the first form, which are shown
\* alike: invalid_auth, cloudflare_challenge, cannot_connect and unknown.
Errors == {"none", "login_failed", "invalid_mfa", "cannot_connect", "unknown",
           "authentication_expired"}

Entry(f, a) == [by |-> f, tokens |-> a]

Init ==
    /\ stage = [f \in Flows |-> "new"]
    /\ back = [f \in Flows |-> "form"]
    /\ dropped = [f \in Flows |-> "no"]
    /\ reauth = [f \in Flows |-> FALSE]
    /\ email = [f \in Flows |-> NoAccount]
    /\ login = [f \in Flows |-> 0]
    /\ tokens = [f \in Flows |-> NoAccount]
    /\ error = [f \in Flows |-> "none"]
    /\ made = 0 /\ account = [n \in Logins |-> NoAccount]
    /\ open = {}
    /\ entries = [a \in Accounts |-> {}]

Goes(f, s) == stage' = [stage EXCEPT ![f] = s]

\* The handler is done and the flow shows form s, unless it was dropped.
Rests(f, s) == Goes(f, IF dropped[f] = "no" THEN s ELSE "over")

\* A form, with what went wrong.
Shows(f, s, e) == Rests(f, s) /\ error' = [error EXCEPT ![f] = e]

Keeps == UNCHANGED <<login, open>>

\* Mutant of CloseLogin: the session is detached, the login is kept.
DetachLogin(f) == UNCHANGED login /\ open' = open \ {login[f]}

CloseLogin(f) ==
    /\ login' = [login EXCEPT ![f] = 0]
    /\ open' = open \ {login[f]}

-----------------------------------------------------------------------------
(* async_step_user, async_step_reauth.                                     *)

UserStarts(f) ==
    /\ stage[f] = "new" /\ Goes(f, "form")
    /\ UNCHANGED <<back, dropped, reauth, email, login, tokens, error, made, account, open, entries>>

\* Home Assistant starts one at a time for an entry, when its tokens fail.
ReauthStarts(f, a) ==
    /\ stage[f] = "new" /\ entries[a] # {}
    /\ \A g \in Flows : reauth[g] /\ email[g] = a => stage[g] = "over" \/ dropped[g] # "no"
    /\ Goes(f, "form")
    /\ reauth' = [reauth EXCEPT ![f] = TRUE]
    /\ email' = [email EXCEPT ![f] = a]
    /\ UNCHANGED <<back, dropped, login, tokens, error, made, account, open, entries>>

\* The account is configured already: the flow ends before any login.
AlreadyConfigured(f, a) ==
    /\ stage[f] = "form" /\ ~reauth[f] /\ entries[a] # {}
    /\ Goes(f, "over")
    /\ email' = [email EXCEPT ![f] = a]
    /\ UNCHANGED <<back, dropped, reauth, login, tokens, error, made, account, open, entries>>

\* _async_start_login, up to its await.
StartLogin(f, a) ==
    /\ made < MaxLogins /\ made' = made + 1
    /\ login' = [login EXCEPT ![f] = made']
    /\ open' = (open \ {login[f]}) \cup {made'}
    /\ account' = [account EXCEPT ![made'] = a]

SendCredentials(f, a) ==
    /\ stage[f] = "form"
    /\ IF reauth[f] THEN a = email[f] ELSE entries[a] = {}
    /\ email' = [email EXCEPT ![f] = a]
    /\ StartLogin(f, a)
    /\ Goes(f, "login") /\ back' = [back EXCEPT ![f] = "form"]
    /\ UNCHANGED <<dropped, reauth, tokens, error, entries>>

GotTokens(f) ==
    /\ tokens' = [tokens EXCEPT ![f] = account[login[f]]]
    /\ Goes(f, "finish")
    /\ Keeps /\ UNCHANGED error

LoginReturns(f) ==
    /\ stage[f] = "login"
    /\ \/ GotTokens(f)
       \/ Shows(f, "mfa", "none") /\ Keeps /\ UNCHANGED tokens
       \/ Shows(f, "form", "login_failed") /\ CloseLogin(f) /\ UNCHANGED tokens
    /\ UNCHANGED <<back, dropped, reauth, email, made, account, entries>>

-----------------------------------------------------------------------------
(* async_step_mfa and async_step_reauth_mfa.                               *)

\* Not six digits.
SendMalformed(f) ==
    /\ stage[f] = "mfa" /\ Shows(f, "mfa", "invalid_mfa")
    /\ UNCHANGED <<back, dropped, reauth, email, login, tokens, made, account, open, entries>>

SendCode(f) ==
    /\ stage[f] = "mfa"
    /\ IF login[f] = 0 THEN Shows(f, "mfa", "authentication_expired") /\ UNCHANGED back
       ELSE Goes(f, "submit") /\ back' = [back EXCEPT ![f] = "mfa"] /\ UNCHANGED error
    /\ UNCHANGED <<dropped, reauth, email, login, tokens, made, account, open, entries>>

\* Mutant of RetryMfa: the login is closed whatever went wrong.
RetryMfaClosed(f) ==
    \E e \in {"invalid_mfa", "cannot_connect"} : Shows(f, "mfa", e) /\ CloseLogin(f)

\* A wrong code or a failed request can be followed by another code.
RetryMfa(f) ==
    \E e \in {"invalid_mfa", "cannot_connect"} : Shows(f, "mfa", e) /\ Keeps

SubmitReturns(f) ==
    /\ stage[f] = "submit"
    /\ \/ GotTokens(f)
       \/ RetryMfa(f) /\ UNCHANGED tokens
       \/ Shows(f, "mfa", "unknown") /\ CloseLogin(f) /\ UNCHANGED tokens
    /\ UNCHANGED <<back, dropped, reauth, email, made, account, entries>>

-----------------------------------------------------------------------------
(* _async_finish.                                                          *)

\* The listing fails, or has no doors, or Home Assistant discards the result of
\* a flow it dropped: the tokens are dropped.
FinishAborts(f) ==
    /\ stage[f] = "finish"
    /\ CloseLogin(f) /\ Goes(f, "over")
    /\ UNCHANGED <<back, dropped, reauth, email, tokens, error, made, account, entries>>

\* Mutant of Configured: the unique ID is not looked up again.
ConfiguredBefore(a) == FALSE

\* _abort_if_unique_id_configured.
Configured(a) == entries[a] # {}

CreateEntry(f) ==
    /\ stage[f] = "finish" /\ ~reauth[f]
    /\ CloseLogin(f) /\ Goes(f, "over")
    /\ entries' = IF Configured(email[f]) THEN entries
                  ELSE [entries EXCEPT ![email[f]] = @ \cup {Entry(f, tokens[f])}]
    /\ UNCHANGED <<back, dropped, reauth, email, tokens, error, made, account>>

\* The entry may have been removed meanwhile: async_update_entry raises, after the
\* login is closed.
UpdateEntry(f) ==
    /\ stage[f] = "finish" /\ reauth[f]
    /\ CloseLogin(f) /\ Goes(f, "over")
    /\ entries' = IF dropped[f] = "removed" THEN entries
                  ELSE [entries EXCEPT ![email[f]] =
                           {[entry EXCEPT !.tokens = tokens[f]] : entry \in @}]
    /\ UNCHANGED <<back, dropped, reauth, email, tokens, error, made, account>>

\* An exception nothing catches, such as a total timeout: Home Assistant answers
\* the request with an error, and the flow is where it was.
HandlerRaises(f) ==
    /\ stage[f] \in Awaiting /\ Rests(f, back[f])
    /\ UNCHANGED <<back, dropped, reauth, email, login, tokens, error, made, account, open, entries>>

-----------------------------------------------------------------------------
(* Home Assistant.                                                         *)

\* The user closes a form, or the dialog of a flow whose handler awaits.  There is
\* no async_remove that would close the flow's login.
UserCloses(f) ==
    /\ \/ stage[f] \in {"form", "mfa"} /\ Goes(f, "over") /\ UNCHANGED dropped
       \/ /\ stage[f] \in Awaiting /\ dropped[f] = "no"
          /\ dropped' = [dropped EXCEPT ![f] = "closed"] /\ UNCHANGED stage
    /\ UNCHANGED <<back, reauth, email, login, tokens, error, made, account, open, entries>>

\* The entry is removed, and the flow that signs in again for it is dropped.
RemoveEntry(a) ==
    /\ entries[a] # {}
    /\ entries' = [entries EXCEPT ![a] = {}]
    /\ LET again == {f \in Flows : reauth[f] /\ email[f] = a}
           busy == {f \in again : stage[f] \in Awaiting}
       IN  /\ stage' = [f \in Flows |-> IF f \in again \ busy THEN "over" ELSE stage[f]]
           /\ dropped' = [f \in Flows |-> IF f \in busy THEN "removed" ELSE dropped[f]]
    /\ UNCHANGED <<back, reauth, email, login, tokens, error, made, account, open>>

HandlerReturns(f) ==
    \/ LoginReturns(f) \/ SubmitReturns(f)
    \/ FinishAborts(f) \/ CreateEntry(f) \/ UpdateEntry(f) \/ HandlerRaises(f)

Next ==
    \/ \E f \in Flows :
          \/ UserStarts(f) \/ SendMalformed(f) \/ SendCode(f)
          \/ HandlerReturns(f) \/ UserCloses(f)
          \/ \E a \in Accounts : ReauthStarts(f, a) \/ AlreadyConfigured(f, a)
                                 \/ SendCredentials(f, a)
    \/ \E a \in Accounts : RemoveEntry(a)

Spec == Init /\ [][Next]_vars

-----------------------------------------------------------------------------
(* Properties.                                                             *)

\* Types; a login belongs to one flow.
TypeOK ==
    /\ stage \in [Flows -> {"new", "form", "mfa", "over"} \cup Awaiting]
    /\ back \in [Flows -> {"form", "mfa"}]
    /\ dropped \in [Flows -> {"no", "closed", "removed"}]
    /\ reauth \in [Flows -> BOOLEAN]
    /\ email \in [Flows -> Accounts \cup {NoAccount}]
    /\ login \in [Flows -> 0 .. made]
    /\ tokens \in [Flows -> Accounts \cup {NoAccount}]
    /\ error \in [Flows -> Errors]
    /\ made \in 0 .. MaxLogins
    /\ account \in [Logins -> Accounts \cup {NoAccount}]
    /\ open \subseteq 1 .. made
    /\ entries \in [Accounts -> SUBSET [by : Flows, tokens : Accounts]]
    /\ \A f, g \in Flows : login[f] = login[g] /\ f # g => login[f] = 0

\* However many flows run for an account, and whatever each of them saw when it
\* began, the account has at most one entry.
OneEntryPerAccount == \A a \in Accounts : Cardinality(entries[a]) <= 1

\* The tokens of an entry were obtained by signing in to its account, although
\* the form of one flow may be sent again with another e-mail address, and the
\* handler that is to use the tokens may have been cut short.
TokensAreTheAccounts ==
    \A a \in Accounts : \A entry \in entries[a] : entry.tokens = a

\* What the entries hold.
EntriesRight == OneEntryPerAccount /\ TokensAreTheAccounts

\* A flow that waits for the login's answers, or for a code that the login can
\* take, has its login's HTTP session open.
LoginsUsable ==
    \A f \in Flows :
        /\ login[f] # 0 => login[f] \in open
        /\ stage[f] \in Awaiting => login[f] # 0

\* The types, and open logins for the flows that need them.
Consistent == TypeOK /\ LoginsUsable

\* A session that is open belongs to a flow.  It loses it only when Home Assistant
\* drops the flow, or when the flow ends at its form because the account was
\* configured meanwhile: at once if the flow shows a form, or when the handler of a
\* flow dropped while it awaits asks for a code or raises.  Whatever else a handler
\* returns, it closes the login or keeps it for the next form.
SessionsOwned ==
    [][\A f \in Flows : login[f] \in open' /\ (login'[f] # login[f] \/ stage'[f] = "over")
           => /\ login'[f] = login[f]
              /\ stage[f] \in Awaiting => dropped[f] # "no"]_vars

\* Only an unexpected error takes the login from a flow that asks for a code:
\* a wrong code or a failed request can be followed by another code.
CodesCanBeRetried ==
    [][\A f \in Flows : login[f] # 0 /\ login'[f] = 0 /\ stage'[f] = "mfa"
           => error'[f] = "unknown"]_vars

\* What a step does to a login.
LoginsHandled == SessionsOwned /\ CodesCanBeRetried
=============================================================================
