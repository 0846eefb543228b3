-------------------------- MODULE ConfigFlowProofs --------------------------
(***************************************************************************)
(* Theorems about ConfigFlow, for any flows, accounts and number of        *)
(* logins, and about LoginSession, whose calls its flows await.            *)
(***************************************************************************)
EXTENDS ConfigFlow, LoginSession, FiniteSetTheorems, TLAPS

\* What a flow that is not over holds: its login signs in to the account the
\* flow is about, and the tokens it is about to use are that account's.
FlowsHold ==
    \A f \in Flows :
        /\ stage[f] = "new" => login[f] = 0
        /\ stage[f] # "over" /\ login[f] # 0
              => email[f] \in Accounts /\ account[login[f]] = email[f]
        /\ reauth[f] => email[f] \in Accounts
        /\ stage[f] = "finish" => tokens[f] = email[f]

\* An account has one entry, if any, and its tokens are the account's.
EntriesHold ==
    \A a \in Accounts :
        /\ \A x, y \in entries[a] : x = y
        /\ \A x \in entries[a] : x.tokens = a

IInv == TypeOK /\ LoginsUsable /\ FlowsHold /\ EntriesHold

LEMMA InitIInv == Init => IInv
<1> USE FlowsAssumption DEF Init, IInv, TypeOK, LoginsUsable, FlowsHold, EntriesHold,
        Logins, Awaiting, Errors
<1>1. Init => TypeOK
  OBVIOUS
<1>2. Init => LoginsUsable /\ FlowsHold /\ EntriesHold
  OBVIOUS
<1> QED
  BY <1>1, <1>2

\* The parts of TypeOK: what a flow is at, what it knows, its logins, the entries.
StagesTyped ==
    /\ stage \in [Flows -> {"new", "form", "mfa", "over"} \cup Awaiting]
    /\ back \in [Flows -> {"form", "mfa"}]
    /\ dropped \in [Flows -> {"no", "closed", "removed"}]
    /\ error \in [Flows -> Errors]

FactsTyped ==
    /\ reauth \in [Flows -> BOOLEAN]
    /\ email \in [Flows -> Accounts \cup {NoAccount}]

LoginsTyped ==
    /\ made \in 0 .. MaxLogins
    /\ login \in [Flows -> 0 .. made]
    /\ open \subseteq 1 .. made
    /\ \A f, g \in Flows : login[f] = login[g] /\ f # g => login[f] = 0

GrantsTyped ==
    /\ tokens \in [Flows -> Accounts \cup {NoAccount}]
    /\ account \in [Logins -> Accounts \cup {NoAccount}]

EntriesTyped == entries \in [Accounts -> SUBSET [by : Flows, tokens : Accounts]]

LEMMA TypeParts ==
    TypeOK <=> StagesTyped /\ FactsTyped /\ LoginsTyped /\ GrantsTyped /\ EntriesTyped
BY DEF TypeOK, StagesTyped, FactsTyped, LoginsTyped, GrantsTyped, EntriesTyped

LEMMA TypePartsPrime ==
    StagesTyped' /\ FactsTyped' /\ LoginsTyped' /\ GrantsTyped' /\ EntriesTyped' => TypeOK'
BY DEF TypeOK, StagesTyped, FactsTyped, LoginsTyped, GrantsTyped, EntriesTyped

\* A login that is closed leaves the others to their flows.
LEMMA CloseLoginTyped ==
    ASSUME NEW f \in Flows, LoginsTyped, CloseLogin(f), UNCHANGED made
    PROVE  LoginsTyped'
<1> USE DEF LoginsTyped
<1>1. login' = [login EXCEPT ![f] = 0] /\ open' \subseteq open /\ made' = made
  BY DEF CloseLogin
<1>2. login' \in [Flows -> 0 .. made]
  BY <1>1
<1>3. \A g \in Flows : login'[g] = IF g = f THEN 0 ELSE login[g]
  BY <1>1
<1>4. \A g, h \in Flows : login'[g] = login'[h] /\ g # h => login'[g] = 0
  BY <1>3
<1> QED
  BY <1>1, <1>2, <1>4

\* A login that is made is the flow's alone.
LEMMA StartLoginTyped ==
    ASSUME NEW f \in Flows, NEW a \in Accounts, LoginsTyped, StartLogin(f, a)
    PROVE  LoginsTyped'
<1> USE FlowsAssumption DEF LoginsTyped
<1>1. /\ made' = made + 1 /\ made' \in 0 .. MaxLogins
      /\ login' = [login EXCEPT ![f] = made']
      /\ open' = (open \ {login[f]}) \cup {made'}
  BY DEF StartLogin
<1>2. 0 .. made \subseteq 0 .. made' /\ made' \in 1 .. made' /\ 1 .. made \subseteq 1 .. made'
  BY <1>1
<1>3. login' \in [Flows -> 0 .. made'] /\ open' \subseteq 1 .. made'
  <2>1. made' \in 0 .. made' /\ (\A g \in Flows : login[g] \in 0 .. made')
    BY <1>1, <1>2
  <2>2. login' \in [Flows -> 0 .. made']
    BY <1>1, <2>1
  <2>3. open' \subseteq 1 .. made'
    BY <1>1, <1>2
  <2> QED
    BY <2>2, <2>3
<1>4. \A g \in Flows : login[g] # made' /\ login'[g] = IF g = f THEN made' ELSE login[g]
  BY <1>1
<1>5. \A g, h \in Flows : login'[g] = login'[h] /\ g # h => login'[g] = 0
  BY <1>4
<1> QED
  BY <1>1, <1>3, <1>5

\* Where a flow is and what is shown.
LEMMA StagesStep == IInv /\ [Next]_vars => StagesTyped' /\ FactsTyped'
<1> SUFFICES ASSUME IInv, [Next]_vars PROVE StagesTyped' /\ FactsTyped'
  OBVIOUS
<1>0. StagesTyped /\ FactsTyped
  BY TypeParts DEF IInv
<1> USE <1>0 DEF StagesTyped, FactsTyped, Awaiting, Errors, Goes, Rests, Shows
<1>1. ASSUME NEW f \in Flows, NEW a \in Accounts,
             ReauthStarts(f, a) \/ AlreadyConfigured(f, a) \/ SendCredentials(f, a)
      PROVE  StagesTyped' /\ FactsTyped'
  <2>1. CASE ReauthStarts(f, a)
    BY <2>1 DEF ReauthStarts
  <2>2. CASE AlreadyConfigured(f, a)
    BY <2>2 DEF AlreadyConfigured
  <2>3. CASE SendCredentials(f, a)
    BY <2>3 DEF SendCredentials
  <2> QED
    BY <1>1, <2>1, <2>2, <2>3
<1>2. ASSUME NEW f \in Flows, UserStarts(f) \/ SendMalformed(f) \/ SendCode(f) \/ UserCloses(f)
      PROVE  StagesTyped' /\ FactsTyped'
  BY <1>2 DEF UserStarts, SendMalformed, SendCode, UserCloses
<1>3. ASSUME NEW f \in Flows, LoginReturns(f) \/ SubmitReturns(f)
      PROVE  StagesTyped' /\ FactsTyped'
  BY <1>3 DEF LoginReturns, SubmitReturns, GotTokens, RetryMfa
<1>4. ASSUME NEW f \in Flows, FinishAborts(f) \/ CreateEntry(f) \/ UpdateEntry(f)
      PROVE  StagesTyped' /\ FactsTyped'
  BY <1>4 DEF FinishAborts, CreateEntry, UpdateEntry
<1>5. ASSUME NEW f \in Flows, HandlerRaises(f) PROVE StagesTyped' /\ FactsTyped'
  BY <1>5 DEF HandlerRaises
<1>6. ASSUME NEW a \in Accounts, RemoveEntry(a) PROVE StagesTyped' /\ FactsTyped'
  BY <1>6 DEF RemoveEntry
<1>7. CASE UNCHANGED vars
  BY <1>7 DEF vars
<1> QED
  BY <1>1, <1>2, <1>3, <1>4, <1>5, <1>6, <1>7 DEF Next, HandlerReturns

\* Which login is whose, and whom it signs in.
LEMMA LoginsStep == IInv /\ [Next]_vars => LoginsTyped' /\ GrantsTyped'
<1> SUFFICES ASSUME IInv, [Next]_vars PROVE LoginsTyped' /\ GrantsTyped'
  OBVIOUS
<1>0. LoginsTyped /\ GrantsTyped
  BY TypeParts DEF IInv
<1> USE <1>0
<1>1. ASSUME UNCHANGED <<made, login, open>> PROVE LoginsTyped'
  BY <1>1 DEF LoginsTyped
<1>2. ASSUME UNCHANGED <<tokens, account>> PROVE GrantsTyped'
  BY <1>2 DEF GrantsTyped
<1>3. ASSUME NEW f \in Flows, NEW a \in Accounts, SendCredentials(f, a)
      PROVE  LoginsTyped' /\ GrantsTyped'
  <2>1. StartLogin(f, a) /\ UNCHANGED tokens
    BY <1>3 DEF SendCredentials
  <2>2. LoginsTyped'
    BY <2>1, StartLoginTyped
  <2>3. account' = [account EXCEPT ![made'] = a]
    BY <2>1 DEF StartLogin
  <2> QED
    BY <2>1, <2>2, <2>3 DEF GrantsTyped
<1>4. ASSUME NEW f \in Flows, stage[f] \in Awaiting, GotTokens(f), UNCHANGED <<made, account>>
      PROVE  LoginsTyped' /\ GrantsTyped'
  <2>1. login[f] \in Logins
    BY <1>4, FlowsAssumption DEF IInv, LoginsUsable, LoginsTyped, Logins
  <2>2. account[login[f]] \in Accounts \cup {NoAccount}
    BY <2>1 DEF GrantsTyped
  <2>3. GrantsTyped'
    BY <1>4, <2>2 DEF GotTokens, GrantsTyped
  <2> QED
    BY <1>1, <1>4, <2>3 DEF GotTokens, Keeps
<1>5. ASSUME NEW f \in Flows, LoginReturns(f) PROVE LoginsTyped' /\ GrantsTyped'
  <2>1. CASE GotTokens(f)
    BY <1>4, <1>5, <2>1 DEF LoginReturns, Awaiting
  <2>2. CASE Keeps /\ UNCHANGED tokens
    BY <1>1, <1>2, <1>5, <2>2 DEF LoginReturns, Keeps
  <2>3. CASE CloseLogin(f) /\ UNCHANGED tokens
    BY <1>2, <1>5, <2>3, CloseLoginTyped DEF LoginReturns
  <2> QED
    BY <1>5, <2>1, <2>2, <2>3 DEF LoginReturns
<1>6. ASSUME NEW f \in Flows, SubmitReturns(f) PROVE LoginsTyped' /\ GrantsTyped'
  <2>1. CASE GotTokens(f)
    BY <1>4, <1>6, <2>1 DEF SubmitReturns, Awaiting
  <2>2. CASE Keeps /\ UNCHANGED tokens
    BY <1>1, <1>2, <1>6, <2>2 DEF SubmitReturns, Keeps
  <2>3. CASE CloseLogin(f) /\ UNCHANGED tokens
    BY <1>2, <1>6, <2>3, CloseLoginTyped DEF SubmitReturns
  <2> QED
    BY <1>6, <2>1, <2>2, <2>3 DEF SubmitReturns, RetryMfa
<1>7. ASSUME NEW f \in Flows, FinishAborts(f) \/ CreateEntry(f) \/ UpdateEntry(f)
      PROVE  LoginsTyped' /\ GrantsTyped'
  <2>1. CloseLogin(f) /\ UNCHANGED <<made, tokens, account>>
    BY <1>7 DEF FinishAborts, CreateEntry, UpdateEntry
  <2> QED
    BY <1>2, <2>1, CloseLoginTyped
<1>8. CASE UNCHANGED <<made, login, open, tokens, account>>
  BY <1>1, <1>2, <1>8
<1> QED
  BY <1>3, <1>5, <1>6, <1>7, <1>8 DEF Next, HandlerReturns, vars, UserStarts, SendMalformed,
     SendCode, HandlerRaises, UserCloses, ReauthStarts, AlreadyConfigured, RemoveEntry

\* The logins and tokens of the flows.
LEMMA FlowsStep == IInv /\ [Next]_vars => LoginsUsable' /\ FlowsHold'
<1> SUFFICES ASSUME IInv, [Next]_vars PROVE LoginsUsable' /\ FlowsHold'
  OBVIOUS
<1> DEFINE Goal == LoginsUsable' /\ FlowsHold'
<1> USE FlowsAssumption DEF IInv, TypeOK, Logins, Awaiting, LoginsUsable, FlowsHold,
        Goes, Rests, Shows, Keeps, CloseLogin
<1>1. ASSUME NEW f \in Flows, UserStarts(f) PROVE Goal
  BY <1>1 DEF UserStarts
<1>2. ASSUME NEW f \in Flows, NEW a \in Accounts, ReauthStarts(f, a) PROVE Goal
  BY <1>2 DEF ReauthStarts
<1>3. ASSUME NEW f \in Flows, NEW a \in Accounts, AlreadyConfigured(f, a) PROVE Goal
  BY <1>3 DEF AlreadyConfigured
<1>4. ASSUME NEW f \in Flows, NEW a \in Accounts, SendCredentials(f, a) PROVE Goal
  <2>1. /\ made' = made + 1 /\ made' \in Logins
        /\ login' = [login EXCEPT ![f] = made']
        /\ account' = [account EXCEPT ![made'] = a]
        /\ open' = (open \ {login[f]}) \cup {made'}
        /\ email' = [email EXCEPT ![f] = a]
        /\ stage' = [stage EXCEPT ![f] = "login"]
        /\ UNCHANGED <<reauth, tokens>>
    BY <1>4 DEF SendCredentials, StartLogin
  <2>2. LoginsUsable'
    BY <2>1
  <2>3. ASSUME NEW g \in Flows, g # f PROVE account'[login[g]] = account[login[g]] \/ login[g] = 0
    BY <2>1, <2>3
  <2>4. FlowsHold'
    BY <2>1, <2>3
  <2> QED
    BY <2>2, <2>4
<1>5. ASSUME NEW f \in Flows, LoginReturns(f) PROVE Goal
  <2>1. CASE GotTokens(f)
    BY <1>5, <2>1 DEF LoginReturns, GotTokens
  <2>2. CASE Rests(f, "mfa") /\ Keeps /\ UNCHANGED tokens
    BY <1>5, <2>2 DEF LoginReturns
  <2>3. CASE Rests(f, "form") /\ CloseLogin(f) /\ UNCHANGED tokens
    BY <1>5, <2>3 DEF LoginReturns
  <2> QED
    BY <1>5, <2>1, <2>2, <2>3 DEF LoginReturns
<1>6. ASSUME NEW f \in Flows, SendMalformed(f) PROVE Goal
  BY <1>6 DEF SendMalformed
<1>7. ASSUME NEW f \in Flows, SendCode(f) PROVE Goal
  BY <1>7 DEF SendCode
<1>8. ASSUME NEW f \in Flows, SubmitReturns(f) PROVE Goal
  <2>1. CASE GotTokens(f)
    BY <1>8, <2>1 DEF SubmitReturns, GotTokens
  <2>2. CASE RetryMfa(f) /\ UNCHANGED tokens
    <3>1. Rests(f, "mfa") /\ Keeps
      BY <2>2 DEF RetryMfa
    <3> QED
      BY <1>8, <2>2, <3>1 DEF SubmitReturns
  <2>3. CASE Rests(f, "mfa") /\ CloseLogin(f) /\ UNCHANGED tokens
    BY <1>8, <2>3 DEF SubmitReturns
  <2> QED
    BY <1>8, <2>1, <2>2, <2>3 DEF SubmitReturns
<1>9. ASSUME NEW f \in Flows, FinishAborts(f) PROVE Goal
  BY <1>9 DEF FinishAborts
<1>10. ASSUME NEW f \in Flows, CreateEntry(f) PROVE Goal
  BY <1>10 DEF CreateEntry
<1>11. ASSUME NEW f \in Flows, UpdateEntry(f) PROVE Goal
  BY <1>11 DEF UpdateEntry
<1>12. ASSUME NEW f \in Flows, HandlerRaises(f) PROVE Goal
  BY <1>12 DEF HandlerRaises
<1>13. ASSUME NEW f \in Flows, UserCloses(f) PROVE Goal
  BY <1>13 DEF UserCloses
<1>14. ASSUME NEW a \in Accounts, RemoveEntry(a) PROVE Goal
  BY <1>14 DEF RemoveEntry
<1>15. CASE UNCHANGED vars
  BY <1>15 DEF vars
<1> QED
  BY <1>1, <1>2, <1>3, <1>4, <1>5, <1>6, <1>7, <1>8, <1>9, <1>10, <1>11, <1>12, <1>13,
     <1>14, <1>15 DEF Next, HandlerReturns

\* An entry made or updated has its account's tokens.
LEMMA EntriesTypedStep == IInv /\ [Next]_vars => EntriesTyped'
<1> SUFFICES ASSUME IInv, [Next]_vars PROVE EntriesTyped'
  OBVIOUS
<1>0. EntriesTyped
  BY TypeParts DEF IInv
<1> USE <1>0 DEF EntriesTyped
<1>1. ASSUME NEW f \in Flows, CreateEntry(f) PROVE EntriesTyped'
  <2>1. email[f] \in Accounts /\ tokens[f] \in Accounts
    BY <1>1 DEF CreateEntry, IInv, FlowsHold, LoginsUsable, Awaiting
  <2>2. Entry(f, tokens[f]) \in [by : Flows, tokens : Accounts]
    BY <2>1 DEF Entry
  <2>3. entries[email[f]] \cup {Entry(f, tokens[f])} \in SUBSET [by : Flows, tokens : Accounts]
    BY <2>1, <2>2
  <2> QED
    BY <1>1, <2>1, <2>3 DEF CreateEntry
<1>2. ASSUME NEW f \in Flows, UpdateEntry(f) PROVE EntriesTyped'
  <2>1. email[f] \in Accounts /\ tokens[f] \in Accounts
    BY <1>2 DEF UpdateEntry, IInv, FlowsHold
  <2> DEFINE Updated(x) == [x EXCEPT !.tokens = tokens[f]]
             Every == {Updated(x) : x \in entries[email[f]]}
  <2>2. \A x \in [by : Flows, tokens : Accounts] : Updated(x) \in [by : Flows, tokens : Accounts]
    BY <2>1
  <2> HIDE DEF Updated
  <2>3. Every \in SUBSET [by : Flows, tokens : Accounts]
    BY <2>1, <2>2
  <2>4. entries' = entries \/ entries' = [entries EXCEPT ![email[f]] = Every]
    BY <1>2 DEF UpdateEntry, Updated
  <2> HIDE DEF Every
  <2> QED
    BY <2>1, <2>3, <2>4
<1>3. ASSUME NEW a \in Accounts, RemoveEntry(a) PROVE EntriesTyped'
  BY <1>3 DEF RemoveEntry
<1>4. CASE UNCHANGED entries
  BY <1>4
<1> QED
  BY <1>1, <1>2, <1>3, <1>4 DEF Next, HandlerReturns, vars, UserStarts, SendMalformed,
     SendCode, LoginReturns, SubmitReturns, FinishAborts, HandlerRaises, UserCloses,
     ReauthStarts, AlreadyConfigured, SendCredentials

\* Only the end of a flow, and a removal, change the entries.
LEMMA EntriesStep == IInv /\ [Next]_vars => EntriesHold'
<1> SUFFICES ASSUME IInv, [Next]_vars PROVE EntriesHold'
  OBVIOUS
<1> USE DEF IInv, TypeOK, EntriesHold
<1>1. ASSUME NEW f \in Flows, CreateEntry(f) PROVE EntriesHold'
  <2>1. email[f] \in Accounts /\ tokens[f] = email[f]
    BY <1>1 DEF CreateEntry, FlowsHold, LoginsUsable, Awaiting
  <2>2. CASE entries[email[f]] # {}
    BY <1>1, <2>2 DEF CreateEntry, Configured
  <2>3. CASE entries[email[f]] = {}
    <3>1. entries' = [entries EXCEPT ![email[f]] = {Entry(f, tokens[f])}]
      BY <1>1, <2>3 DEF CreateEntry, Configured
    <3>2. Entry(f, tokens[f]).tokens = email[f]
      BY <2>1 DEF Entry
    <3> QED
      BY <2>1, <3>1, <3>2
  <2> QED
    BY <2>2, <2>3
<1>2. ASSUME NEW f \in Flows, UpdateEntry(f) PROVE EntriesHold'
  <2>1. email[f] \in Accounts /\ tokens[f] = email[f]
    BY <1>2 DEF UpdateEntry, FlowsHold
  <2> DEFINE Updated == {[x EXCEPT !.tokens = tokens[f]] : x \in entries[email[f]]}
  <2>2. entries' = entries \/ entries' = [entries EXCEPT ![email[f]] = Updated]
    BY <1>2 DEF UpdateEntry
  <2>3. \A x, y \in Updated : x = y
    BY <2>1
  <2>4. \A x \in Updated : x.tokens = email[f]
    BY <2>1
  <2> HIDE DEF Updated
  <2> QED
    BY <2>1, <2>2, <2>3, <2>4
<1>3. ASSUME NEW a \in Accounts, RemoveEntry(a) PROVE EntriesHold'
  BY <1>3 DEF RemoveEntry
<1>4. CASE UNCHANGED entries
  BY <1>4
<1> QED
  BY <1>1, <1>2, <1>3, <1>4 DEF Next, HandlerReturns, vars, UserStarts, SendMalformed,
     SendCode, LoginReturns, SubmitReturns, FinishAborts, HandlerRaises, UserCloses,
     ReauthStarts, AlreadyConfigured, SendCredentials

\* The invariant of the flows: types, logins, tokens and entries together.
THEOREM Invariant == Spec => []IInv
<1>1. IInv /\ [Next]_vars => IInv'
  BY TypePartsPrime, StagesStep, LoginsStep, EntriesTypedStep, FlowsStep, EntriesStep
     DEF IInv
<1> QED
  BY InitIInv, <1>1, PTL DEF Spec

\* Consistent: the types; no two flows share a login; what waits for a login's
\* answer has its session open (_async_start_login, _close_login).
THEOREM StaysConsistent == Spec => []Consistent
<1>1. IInv => Consistent
  BY DEF IInv, Consistent
<1> QED
  BY Invariant, <1>1, PTL

\* TokensAreTheAccounts: what _async_finish stores was given for the account.
LEMMA EntriesHoldTheirTokens == Spec => []TokensAreTheAccounts
<1>1. IInv => TokensAreTheAccounts
  BY DEF IInv, EntriesHold, TokensAreTheAccounts
<1> QED
  BY Invariant, <1>1, PTL

\* OneEntryPerAccount, however many flows run at once (_async_finish).
LEMMA EntriesAreUnique == Spec => []OneEntryPerAccount
<1>1. IInv => OneEntryPerAccount
  <2> SUFFICES ASSUME IInv, NEW a \in Accounts PROVE Cardinality(entries[a]) <= 1
    BY DEF OneEntryPerAccount
  <2>1. CASE entries[a] = {}
    BY <2>1, FS_EmptySet
  <2>2. CASE entries[a] # {}
    <3>1. PICK x : x \in entries[a]
      BY <2>2
    <3>2. entries[a] = {x}
      BY <3>1 DEF IInv, EntriesHold
    <3> QED
      BY <3>2, FS_Singleton
  <2> QED
    BY <2>1, <2>2
<1> QED
  BY Invariant, <1>1, PTL

\* EntriesRight: what _async_finish stores, however many flows run at once.
THEOREM EntriesAreRight == Spec => []EntriesRight
<1>1. OneEntryPerAccount /\ TokensAreTheAccounts => EntriesRight
  BY DEF EntriesRight
<1> QED
  BY EntriesHoldTheirTokens, EntriesAreUnique, <1>1, PTL

\* SessionsOwned: no handler forgets an open session, unless Home Assistant dropped
\* the flow while the handler was awaiting (_close_login; there is no async_remove).
LEMMA SessionsStayOwned == Spec => SessionsOwned
<1> DEFINE A == \A f \in Flows : login[f] \in open' /\ (login'[f] # login[f] \/ stage'[f] = "over")
                   => /\ login'[f] = login[f]
                      /\ stage[f] \in Awaiting => dropped[f] # "no"
<1>1. IInv /\ [Next]_vars => A
  <2> SUFFICES ASSUME IInv, [Next]_vars, NEW g \in Flows,
                      login[g] \in open', login'[g] # login[g] \/ stage'[g] = "over"
               PROVE  login'[g] = login[g] /\ (stage[g] \in Awaiting => dropped[g] # "no")
    OBVIOUS
  <2> DEFINE Owned == login'[g] = login[g] /\ (stage[g] \in Awaiting => dropped[g] # "no")
  <2> USE DEF IInv, TypeOK, Logins, Awaiting, Goes, Rests, Shows, Keeps, CloseLogin
  <2>1. ASSUME NEW f \in Flows, NEW a \in Accounts, SendCredentials(f, a)
        PROVE  Owned
    <3>1. /\ made' = made + 1
          /\ login' = [login EXCEPT ![f] = made']
          /\ open' = (open \ {login[f]}) \cup {made'}
          /\ stage' = [stage EXCEPT ![f] = "login"]
      BY <2>1 DEF SendCredentials, StartLogin
    <3>2. g # f
      BY <3>1
    <3> QED
      BY <3>1, <3>2
  <2>2. ASSUME NEW f \in Flows, NEW a \in Accounts, ReauthStarts(f, a) \/ AlreadyConfigured(f, a)
        PROVE  Owned
    BY <2>2 DEF ReauthStarts, AlreadyConfigured
  <2>3. ASSUME NEW f \in Flows, UserStarts(f) \/ SendMalformed(f) \/ SendCode(f) \/ UserCloses(f)
        PROVE  Owned
    BY <2>3 DEF UserStarts, SendMalformed, SendCode, UserCloses
  <2>4. ASSUME NEW f \in Flows, LoginReturns(f) \/ SubmitReturns(f)
        PROVE  Owned
    BY <2>4 DEF LoginReturns, SubmitReturns, GotTokens, RetryMfa
  <2>5. ASSUME NEW f \in Flows, FinishAborts(f) \/ CreateEntry(f) \/ UpdateEntry(f) \/ HandlerRaises(f)
        PROVE  Owned
    BY <2>5 DEF FinishAborts, CreateEntry, UpdateEntry, HandlerRaises
  <2>6. ASSUME NEW a \in Accounts, RemoveEntry(a)
        PROVE  Owned
    BY <2>6 DEF RemoveEntry, FlowsHold
  <2>7. CASE UNCHANGED vars
    BY <2>7 DEF vars
  <2> QED
    BY <2>1, <2>2, <2>3, <2>4, <2>5, <2>6, <2>7 DEF Next, HandlerReturns
<1> QED
  BY Invariant, <1>1, PTL DEF Spec, SessionsOwned

\* CodesCanBeRetried: only an unexpected error ends the login under the form
\* for a code (_async_submit_mfa).
LEMMA CodesStayRetriable == Spec => CodesCanBeRetried
<1> DEFINE A == \A f \in Flows : login[f] # 0 /\ login'[f] = 0 /\ stage'[f] = "mfa"
                   => error'[f] = "unknown"
<1>1. IInv /\ [Next]_vars => A
  <2> SUFFICES ASSUME IInv, [Next]_vars, NEW g \in Flows,
                      login[g] # 0, login'[g] = 0, stage'[g] = "mfa"
               PROVE  error'[g] = "unknown"
    OBVIOUS
  <2> USE DEF IInv, TypeOK, Awaiting, Goes, Rests, Shows, Keeps, CloseLogin
  <2>1. ASSUME NEW f \in Flows, NEW a \in Accounts,
               ReauthStarts(f, a) \/ AlreadyConfigured(f, a) \/ SendCredentials(f, a)
        PROVE  error'[g] = "unknown"
    BY <2>1 DEF ReauthStarts, AlreadyConfigured, SendCredentials, StartLogin
  <2>2. ASSUME NEW f \in Flows, UserStarts(f) \/ SendMalformed(f) \/ SendCode(f) \/ UserCloses(f)
        PROVE  error'[g] = "unknown"
    BY <2>2 DEF UserStarts, SendMalformed, SendCode, UserCloses
  <2>3. ASSUME NEW f \in Flows, LoginReturns(f) \/ SubmitReturns(f)
        PROVE  error'[g] = "unknown"
    BY <2>3 DEF LoginReturns, SubmitReturns, GotTokens, RetryMfa
  <2>4. ASSUME NEW f \in Flows, FinishAborts(f) \/ CreateEntry(f) \/ UpdateEntry(f) \/ HandlerRaises(f)
        PROVE  error'[g] = "unknown"
    BY <2>4 DEF FinishAborts, CreateEntry, UpdateEntry, HandlerRaises
  <2>5. ASSUME NEW a \in Accounts, RemoveEntry(a) PROVE error'[g] = "unknown"
    BY <2>5 DEF RemoveEntry
  <2>6. CASE UNCHANGED vars
    BY <2>6 DEF vars
  <2> QED
    BY <2>1, <2>2, <2>3, <2>4, <2>5, <2>6 DEF Next, HandlerReturns
<1> QED
  BY Invariant, <1>1, PTL DEF Spec, CodesCanBeRetried

\* LoginsHandled: both at once.
THEOREM LoginsAreHandled == Spec => LoginsHandled
BY SessionsStayOwned, CodesStayRetriable DEF LoginsHandled

-----------------------------------------------------------------------------
(* Signing in, which the flows await: MyQLoginSession (LoginSession), for    *)
(* any number of redirects followed and of forms that the server issues.    *)

\* Results after which the flow submits another code.
Retried == {"mfa", "invalid_mfa", "client", "other"}

\* The form in hand is the newest one while a code is on its way and whenever
\* another may follow, unless one was missed; before the first answer with a
\* form there is none.
FormFollows ==
    /\ result = "none" \/ call = "start" => form = 0
    /\ call = "submit" /\ ~missed => form = issued
    /\ call = "none" /\ form # 0 /\ result \in Retried /\ ~missed => form = issued

SessionIInv == SessionTypeOK /\ FormIsCurrent /\ FormFollows

LEMMA SessionInitIInv ==
    ASSUME SessionInit
    PROVE  SessionIInv
<1> USE HopsAssumption DEF SessionInit, SessionTypeOK, FormIsCurrent, FormFollows, Retried,
        StartSteps, SubmitSteps, ExchangeSteps, SessionErrors
<1>1. SessionTypeOK
  <2>1. hops \in 0 .. MaxHops /\ form \in 0 .. issued /\ issued \in 0 .. MaxForms
    OBVIOUS
  <2>2. missed \in BOOLEAN /\ call = "none" /\ step = "idle" /\ result = "none"
    OBVIOUS
  <2> QED
    BY <2>1, <2>2
<1>2. FormIsCurrent /\ FormFollows
  OBVIOUS
<1> QED
  BY <1>1, <1>2 DEF SessionIInv

\* The pages, one step of the code at a time.
LEMMA PageStep ==
    ASSUME SessionIInv, NEW page \in Pages,
           LoginForm(page) \/ PasswordAnswer(page) \/ MethodAnswer(page)
           \/ CodeAnswer(page) \/ ConsentAnswer(page)
    PROVE  SessionIInv'
<1> USE HopsAssumption DEF SessionIInv, SessionTypeOK, FormIsCurrent, FormFollows, Retried,
        StartSteps, SubmitSteps, ExchangeSteps, SessionErrors,
        Pages, Otp, Arrives, Followable, Request,
        Returns, ReturnsWithForm
<1>1. CASE LoginForm(page)
  BY <1>1 DEF LoginForm
<1>2. CASE PasswordAnswer(page)
  BY <1>2 DEF PasswordAnswer
<1>3. CASE MethodAnswer(page)
  BY <1>3 DEF MethodAnswer
<1>4. CASE CodeAnswer(page)
  BY <1>4 DEF CodeAnswer, Rejects
<1>5. CASE ConsentAnswer(page)
  BY <1>5 DEF ConsentAnswer, Rejects
<1> QED
  BY <1>1, <1>2, <1>3, <1>4, <1>5

LEMMA SessionNextIInv ==
    ASSUME SessionIInv, [SessionNext]_sessionVars
    PROVE  SessionIInv'
<1> USE HopsAssumption DEF SessionIInv, SessionTypeOK, FormIsCurrent, FormFollows, Retried,
        StartSteps, SubmitSteps, ExchangeSteps, SessionErrors,
        Followable, Request, Returns
<1>1. CASE Start
  BY <1>1 DEF Start
<1>2. CASE SubmitMfa
  BY <1>2 DEF SubmitMfa
<1>3. CASE Redirect
  BY <1>3 DEF Redirect
<1>4. CASE TooManyRedirects
  BY <1>4 DEF TooManyRedirects
<1>5. CASE Callback
  BY <1>5 DEF Callback
<1>6. CASE ConsentGiven
  <2>1. /\ call' = call /\ step' = "resume" /\ hops' = 0 /\ form' = form /\ result' = result
        /\ step = "consent" /\ issued' \in {issued, issued + 1} /\ issued' <= MaxForms
    BY <1>6 DEF ConsentGiven
  <2>2. missed' \in BOOLEAN /\ (~missed' => ~missed /\ issued' = issued)
    BY <1>6, Zenon DEF ConsentGiven
  <2>3. SessionTypeOK'
    BY <2>1, <2>2
  <2> QED
    BY <2>1, <2>2, <2>3
<1>7. CASE AppCheckToken
  BY <1>7 DEF AppCheckToken
<1>8. CASE TokenAnswer
  BY <1>8 DEF TokenAnswer
<1>9. CASE ExchangeFails
  BY <1>9 DEF ExchangeFails
<1>10. CASE RequestFails
  <2>1. PICK r \in {"client", "other"} : Returns(r)
    BY <1>10 DEF RequestFails
  <2>2. /\ call' = "none" /\ step' = "idle" /\ hops' = 0 /\ form' = form /\ result' = r
        /\ call # "none" /\ issued' \in 0 .. MaxForms /\ issued <= issued'
    BY <1>10, <2>1 DEF RequestFails
  <2>3. missed' \in BOOLEAN /\ (call = "submit" => missed') /\ (call # "submit" => missed' = missed)
    BY <1>10, Zenon DEF RequestFails
  <2>4. SessionTypeOK'
    BY <2>1, <2>2, <2>3
  <2>5. CASE call = "submit"
    BY <2>1, <2>2, <2>3, <2>4, <2>5
  <2>6. CASE call = "start"
    BY <2>1, <2>2, <2>4, <2>6
  <2> QED
    BY <2>2, <2>5, <2>6
<1>11. CASE UNCHANGED sessionVars
  BY <1>11 DEF sessionVars
<1>12. ASSUME NEW page \in Pages,
              LoginForm(page) \/ PasswordAnswer(page) \/ MethodAnswer(page)
              \/ CodeAnswer(page) \/ ConsentAnswer(page)
       PROVE  SessionIInv'
  BY <1>12, PageStep
<1> QED
  BY <1>1, <1>2, <1>3, <1>4, <1>5, <1>6, <1>7, <1>8, <1>9, <1>10, <1>11, <1>12
  DEF SessionNext, AnswerArrives

\* SessionConsistent: whatever the server's pages and redirects are, a code that the
\* user is asked for goes into the newest form (auth.py, async_start,
\* async_submit_mfa), unless an answer to a submission was lost or the page that
\* answered a consent was passed over with a form on it (_follow_consent).
THEOREM SessionStaysConsistent == SessionSpec => []SessionConsistent
<1>1. SessionInit => SessionIInv
  BY SessionInitIInv
<1>2. SessionIInv /\ [SessionNext]_sessionVars => SessionIInv'
  BY SessionNextIInv
<1>3. SessionIInv => SessionConsistent
  BY DEF SessionIInv, SessionConsistent
<1> QED
  BY <1>1, <1>2, <1>3, PTL DEF SessionSpec
=============================================================================
