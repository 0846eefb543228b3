------------------------- MODULE TokenRefreshProofs -------------------------
(* Theorems about TokenRefresh, for any number of callers, of MyQAuth      *)
(* objects and of tokens.                                                  *)
EXTENDS TokenRefresh, TLAPS

\* Every token that is anywhere was issued.
TokensIssued ==
    /\ \A a \in Auths : tok[a] <= issued
    /\ \A c \in Callers : answer[c] <= issued
    /\ stored <= issued /\ disk <= issued

\* An answer on its way that carries a new token.
Rotated(c) == pc[c] = "tokens" /\ answer[c] # sent[c]

\* Nobody but the caller it is for knows that token: no MyQAuth, not the entry
\* and no other answer, so that nobody can exchange it before it is stored.
AnswersUnused ==
    \A c \in Callers : Rotated(c) =>
        /\ answer[c] \in valid
        /\ stored # answer[c]
        /\ \A a \in Auths : tok[a] # answer[c]
        /\ \A d \in Callers \ {c} : pc[d] = "tokens" => answer[d] # answer[c]

IInv == TypeOK /\ RefreshesSerial /\ TokensIssued /\ AnswersUnused

-----------------------------------------------------------------------------
LEMMA LeaveType ==
  ASSUME TypeOK, NEW c \in Callers, Leave(c)
  PROVE  /\ pc' \in [Callers -> {"idle", "wait", "sent", "tokens", "denied", "failed",
                                "cancelled"}]
         /\ at' \in [Callers -> Auths \cup {NoAuth}]
         /\ sent' \in [Callers -> Tokens] /\ answer' \in [Callers -> Tokens]
  BY TokenAssumption DEF TypeOK, StatesOK, Tokens, Leave

LEMMA UnlockType ==
  ASSUME TypeOK, NEW a, Unlock(a)
  PROVE  holder' \in [Auths -> Callers \cup {NoCaller}]
  BY DEF TypeOK, StatesOK, Unlock

LEMMA GoesOnType ==
  ASSUME TypeOK, NEW c \in Callers, PollGoesOn(c)
  PROVE  loaded' \in Auths \cup {NoAuth} /\ phase' \in {"off", "setup", "on", "down"}
  BY DEF TypeOK, StatesOK, PollGoesOn, EntryOff, entryVars

LEMMA StopsType ==
  ASSUME TypeOK, NEW c \in Callers, NEW refused, PollStops(c, refused)
  PROVE  loaded' \in Auths \cup {NoAuth} /\ phase' \in {"off", "setup", "on", "down"}
  BY DEF TypeOK, StatesOK, PollStops, EntryOff

LEMMA FlagsStep == FlagsOK /\ [Next]_vars => FlagsOK'
  <1> USE DEF FlagsOK, entryVars, authVars, callVars, storeVars, serverVars
  <1> SUFFICES ASSUME FlagsOK, [Next]_vars PROVE FlagsOK'
    OBVIOUS
  <1>1. ASSUME NEW c \in Callers, Call(c)  PROVE FlagsOK'
    BY Zenon, <1>1 DEF Call, Send, Waits
  <1>2. ASSUME NEW c \in Callers, Acquire(c)  PROVE FlagsOK'
    BY Zenon, <1>2 DEF Acquire, Send, Leave, PollGoesOn, FirstPoll, EntryOff
  <1>3. ASSUME NEW c \in Callers, Received(c)  PROVE FlagsOK'
    BY Zenon, <1>3 DEF Received, Unlock, Leave, PollGoesOn, FirstPoll, EntryOff
  <1>4. ASSUME NEW c \in Callers, Refused(c)  PROVE FlagsOK'
    BY Zenon, <1>4 DEF Refused, Unlock, Leave, PollStops, FirstPoll, EntryOff
  <1>5. ASSUME NEW c \in Callers, Failed(c)  PROVE FlagsOK'
    BY Zenon, <1>5 DEF Failed, Unlock, Leave, PollStops, FirstPoll, EntryOff
  <1>6. ASSUME NEW c \in Callers, Cancelled(c)  PROVE FlagsOK'
    BY Zenon, <1>6 DEF Cancelled, Unlock, Leave, PollStops, FirstPoll, EntryOff
  <1>7. ASSUME NEW c \in Callers, CancelCaller(c)  PROVE FlagsOK'
    BY Zenon, <1>7 DEF CancelCaller
  <1>8. ASSUME NEW c \in Callers, ServerRotates(c)  PROVE FlagsOK'
    BY Zenon, <1>8 DEF ServerRotates
  <1>9. ASSUME NEW c \in Callers, ServerKeeps(c)  PROVE FlagsOK'
    BY Zenon, <1>9 DEF ServerKeeps
  <1>10. ASSUME NEW c \in Callers, ServerDenies(c)  PROVE FlagsOK'
    BY Zenon, <1>10 DEF ServerDenies
  <1>11. ASSUME NEW c \in Callers, NetworkFails(c)  PROVE FlagsOK'
    BY Zenon, <1>11 DEF NetworkFails
  <1>12. ASSUME NEW a \in Auths, Setup(a)  PROVE FlagsOK'
    BY Zenon, <1>12 DEF Setup
  <1>13. ASSUME NEW a \in Auths, Expire(a)  PROVE FlagsOK'
    BY Zenon, <1>13 DEF Expire
  <1>14. CASE SetupEnds \/ PollRefused
    BY Zenon, <1>14 DEF SetupEnds, PollRefused, EntryOff
  <1>15. CASE Unload
    BY Zenon, <1>15 DEF Unload, EntryOff
  <1>16. CASE Save
    BY Zenon, <1>16 DEF Save
  <1>17. CASE Crash
    BY Zenon, <1>17 DEF Crash
  <1>18. CASE Restart
    BY Zenon, <1>18 DEF Restart
  <1>19. CASE StoredExpires
    BY Zenon, <1>19 DEF StoredExpires
  <1>20. ASSUME NEW short \in BOOLEAN, Reauthenticate(short)  PROVE FlagsOK'
    BY Zenon, <1>20 DEF Reauthenticate, EntryOff
  <1>21. CASE UNCHANGED vars
    BY Zenon, <1>21 DEF vars
  <1>22. QED
    BY Zenon, <1>1, <1>2, <1>3, <1>4, <1>5, <1>6, <1>7, <1>8, <1>9, <1>10, <1>11, <1>12,
       <1>13, <1>14, <1>15, <1>16, <1>17, <1>18, <1>19, <1>20, <1>21
    DEF Next, CallerStep, Server, ServerAnswers

LEMMA StatesStep == TypeOK /\ RefreshesSerial /\ [Next]_vars => StatesOK'
  <1> USE TokenAssumption DEF TypeOK, StatesOK, Tokens, entryVars, authVars, callVars,
     storeVars, serverVars
  <1> SUFFICES ASSUME TypeOK, RefreshesSerial, [Next]_vars PROVE StatesOK'
    OBVIOUS
  <1>1. ASSUME NEW c \in Callers, Call(c)  PROVE StatesOK'
    BY <1>1 DEF Call, Send, Waits
  <1>2. ASSUME NEW c \in Callers, Acquire(c)  PROVE StatesOK'
    <2>1. CASE fresh[at[c]]
      BY <1>2, <2>1, LeaveType, GoesOnType DEF Acquire
    <2>2. CASE ~fresh[at[c]]
      BY <1>2, <2>2 DEF Acquire, Send, RefreshesSerial
    <2>3. QED
      BY <2>1, <2>2
  <1>3. ASSUME NEW c \in Callers, Received(c)  PROVE StatesOK'
    <2>1. tok' \in [Auths -> Tokens] /\ fresh' \in [Auths -> BOOLEAN] /\ stored' \in Tokens
      BY <1>3 DEF Received
    <2>2. UNCHANGED <<disk, valid, issued>> /\ Leave(c) /\ Unlock(at[c]) /\ PollGoesOn(c)
      BY <1>3 DEF Received
    <2>3. QED
      BY <2>1, <2>2, LeaveType, UnlockType, GoesOnType
  <1>4. ASSUME NEW c \in Callers, Refused(c)  PROVE StatesOK'
    BY <1>4, LeaveType, UnlockType, StopsType DEF Refused
  <1>5. ASSUME NEW c \in Callers, Failed(c)  PROVE StatesOK'
    BY <1>5, LeaveType, UnlockType, StopsType DEF Failed
  <1>6. ASSUME NEW c \in Callers, Cancelled(c)  PROVE StatesOK'
    BY <1>6 DEF Cancelled, Unlock, Leave, PollStops, FirstPoll, EntryOff
  <1>7. ASSUME NEW c \in Callers, CancelCaller(c)  PROVE StatesOK'
    BY <1>7 DEF CancelCaller
  <1>8. ASSUME NEW c \in Callers, ServerRotates(c)  PROVE StatesOK'
    <2>1. issued + 1 \in Tokens
      BY <1>8 DEF ServerRotates
    <2>2. QED
      BY <1>8, <2>1 DEF ServerRotates
  <1>9. ASSUME NEW c \in Callers, ServerKeeps(c)  PROVE StatesOK'
    BY <1>9 DEF ServerKeeps
  <1>10. ASSUME NEW c \in Callers, ServerDenies(c)  PROVE StatesOK'
    BY <1>10 DEF ServerDenies
  <1>11. ASSUME NEW c \in Callers, NetworkFails(c)  PROVE StatesOK'
    BY <1>11 DEF NetworkFails
  <1>12. ASSUME NEW a \in Auths, Setup(a)  PROVE StatesOK'
    <2>1. fresh' \in [Auths -> BOOLEAN]
      BY Zenon, <1>12 DEF Setup, FlagsOK
    <2>2. tok' \in [Auths -> Tokens]
      BY <1>12 DEF Setup
    <2>3. QED
      BY <1>12, <2>1, <2>2 DEF Setup
  <1>13. ASSUME NEW a \in Auths, Expire(a)  PROVE StatesOK'
    BY <1>13 DEF Expire
  <1>14. CASE SetupEnds \/ PollRefused
    BY <1>14 DEF SetupEnds, PollRefused, EntryOff
  <1>15. CASE Unload
    BY <1>15 DEF Unload, EntryOff
  <1>16. CASE Save
    BY <1>16 DEF Save
  <1>17. CASE Crash
    BY <1>17 DEF Crash
  <1>18. CASE Restart
    BY <1>18 DEF Restart
  <1>19. CASE StoredExpires
    BY <1>19 DEF StoredExpires
  <1>20. ASSUME NEW short \in BOOLEAN, Reauthenticate(short)  PROVE StatesOK'
    BY <1>20 DEF Reauthenticate, EntryOff
  <1>21. CASE UNCHANGED vars
    BY <1>21 DEF vars
  <1>22. QED
    BY <1>1, <1>2, <1>3, <1>4, <1>5, <1>6, <1>7, <1>8, <1>9, <1>10, <1>11, <1>12, <1>13,
       <1>14, <1>15, <1>16, <1>17, <1>18, <1>19, <1>20, <1>21
    DEF Next, CallerStep, Server, ServerAnswers

LEMMA TypeStep == TypeOK /\ RefreshesSerial /\ [Next]_vars => TypeOK'
  BY FlagsStep, StatesStep DEF TypeOK

-----------------------------------------------------------------------------
LEMMA SerialStep == TypeOK /\ RefreshesSerial /\ [Next]_vars => RefreshesSerial'
  <1> USE TokenAssumption DEF TypeOK, StatesOK, RefreshesSerial, InFlight, entryVars,
     authVars, callVars, storeVars, serverVars
  <1> SUFFICES ASSUME TypeOK, RefreshesSerial, [Next]_vars PROVE RefreshesSerial'
    OBVIOUS
  <1>1. ASSUME NEW c \in Callers, Call(c)  PROVE RefreshesSerial'
    BY <1>1 DEF Call, Send, Waits
  <1>2. ASSUME NEW c \in Callers, Acquire(c)  PROVE RefreshesSerial'
    <2>1. CASE fresh[at[c]]
      BY <1>2, <2>1 DEF Acquire, Leave
    <2>2. CASE ~fresh[at[c]]
      BY <1>2, <2>2 DEF Acquire, Send, RefreshesSerial
    <2>3. QED
      BY <2>1, <2>2
  <1>3. ASSUME NEW c \in Callers, Received(c)  PROVE RefreshesSerial'
    BY <1>3 DEF Received, Unlock, Leave, PollGoesOn, FirstPoll, EntryOff
  <1>4. ASSUME NEW c \in Callers, Refused(c)  PROVE RefreshesSerial'
    BY <1>4 DEF Refused, Unlock, Leave, PollStops, FirstPoll, EntryOff
  <1>5. ASSUME NEW c \in Callers, Failed(c)  PROVE RefreshesSerial'
    BY <1>5 DEF Failed, Unlock, Leave, PollStops, FirstPoll, EntryOff
  <1>6. ASSUME NEW c \in Callers, Cancelled(c)  PROVE RefreshesSerial'
    BY <1>6 DEF Cancelled, Unlock, Leave, PollStops, FirstPoll, EntryOff
  <1>7. ASSUME NEW c \in Callers, CancelCaller(c)  PROVE RefreshesSerial'
    BY <1>7 DEF CancelCaller
  <1>8. ASSUME NEW c \in Callers, ServerRotates(c)  PROVE RefreshesSerial'
    BY <1>8 DEF ServerRotates
  <1>9. ASSUME NEW c \in Callers, ServerKeeps(c)  PROVE RefreshesSerial'
    BY <1>9 DEF ServerKeeps
  <1>10. ASSUME NEW c \in Callers, ServerDenies(c)  PROVE RefreshesSerial'
    BY <1>10 DEF ServerDenies
  <1>11. ASSUME NEW c \in Callers, NetworkFails(c)  PROVE RefreshesSerial'
    BY <1>11 DEF NetworkFails
  <1>12. ASSUME NEW a \in Auths, Setup(a)  PROVE RefreshesSerial'
    BY <1>12 DEF Setup
  <1>13. ASSUME NEW a \in Auths, Expire(a)  PROVE RefreshesSerial'
    BY <1>13 DEF Expire
  <1>14. CASE SetupEnds \/ PollRefused
    <2>1. UNCHANGED <<authVars, callVars, storeVars, serverVars>>
      BY <1>14 DEF SetupEnds, PollRefused
    <2> QED
      BY <2>1
  <1>15. CASE Unload
    BY <1>15 DEF Unload, EntryOff
  <1>16. CASE Save
    BY <1>16 DEF Save
  <1>17. CASE Crash
    BY <1>17 DEF Crash
  <1>18. CASE Restart
    BY <1>18 DEF Restart
  <1>19. CASE StoredExpires
    BY <1>19 DEF StoredExpires
  <1>20. ASSUME NEW short \in BOOLEAN, Reauthenticate(short)  PROVE RefreshesSerial'
    BY <1>20 DEF Reauthenticate, EntryOff
  <1>21. CASE UNCHANGED vars
    BY <1>21 DEF vars
  <1>22. QED
    BY <1>1, <1>2, <1>3, <1>4, <1>5, <1>6, <1>7, <1>8, <1>9, <1>10, <1>11, <1>12, <1>13,
       <1>14, <1>15, <1>16, <1>17, <1>18, <1>19, <1>20, <1>21
    DEF Next, CallerStep, Server, ServerAnswers

LEMMA IssuedStep == TypeOK /\ RefreshesSerial /\ TokensIssued /\ [Next]_vars => TokensIssued'
  <1> USE TokenAssumption DEF TypeOK, StatesOK, Tokens, RefreshesSerial, InFlight,
     TokensIssued, entryVars, authVars, callVars, storeVars, serverVars
  <1> SUFFICES ASSUME TypeOK, RefreshesSerial, TokensIssued, [Next]_vars PROVE TokensIssued'
    OBVIOUS
  <1>1. ASSUME NEW c \in Callers, Call(c)  PROVE TokensIssued'
    BY <1>1 DEF Call, Send, Waits
  <1>2. ASSUME NEW c \in Callers, Acquire(c)  PROVE TokensIssued'
    <2>1. CASE fresh[at[c]]
      BY <1>2, <2>1 DEF Acquire, Leave
    <2>2. CASE ~fresh[at[c]]
      BY <1>2, <2>2 DEF Acquire, Send, RefreshesSerial
    <2>3. QED
      BY <2>1, <2>2
  <1>3. ASSUME NEW c \in Callers, Received(c)  PROVE TokensIssued'
    BY <1>3 DEF Received, Unlock, Leave, PollGoesOn, FirstPoll, EntryOff
  <1>4. ASSUME NEW c \in Callers, Refused(c)  PROVE TokensIssued'
    BY <1>4 DEF Refused, Unlock, Leave, PollStops, FirstPoll, EntryOff
  <1>5. ASSUME NEW c \in Callers, Failed(c)  PROVE TokensIssued'
    BY <1>5 DEF Failed, Unlock, Leave, PollStops, FirstPoll, EntryOff
  <1>6. ASSUME NEW c \in Callers, Cancelled(c)  PROVE TokensIssued'
    BY <1>6 DEF Cancelled, Unlock, Leave, PollStops, FirstPoll, EntryOff
  <1>7. ASSUME NEW c \in Callers, CancelCaller(c)  PROVE TokensIssued'
    BY <1>7 DEF CancelCaller
  <1>8. ASSUME NEW c \in Callers, ServerRotates(c)  PROVE TokensIssued'
    BY <1>8 DEF ServerRotates
  <1>9. ASSUME NEW c \in Callers, ServerKeeps(c)  PROVE TokensIssued'
    BY <1>9 DEF ServerKeeps
  <1>10. ASSUME NEW c \in Callers, ServerDenies(c)  PROVE TokensIssued'
    BY <1>10 DEF ServerDenies
  <1>11. ASSUME NEW c \in Callers, NetworkFails(c)  PROVE TokensIssued'
    BY <1>11 DEF NetworkFails
  <1>12. ASSUME NEW a \in Auths, Setup(a)  PROVE TokensIssued'
    BY <1>12 DEF Setup
  <1>13. ASSUME NEW a \in Auths, Expire(a)  PROVE TokensIssued'
    BY <1>13 DEF Expire
  <1>14. CASE SetupEnds \/ PollRefused
    <2>1. UNCHANGED <<authVars, callVars, storeVars, serverVars>>
      BY <1>14 DEF SetupEnds, PollRefused
    <2> QED
      BY <2>1
  <1>15. CASE Unload
    BY <1>15 DEF Unload, EntryOff
  <1>16. CASE Save
    BY <1>16 DEF Save
  <1>17. CASE Crash
    BY <1>17 DEF Crash
  <1>18. CASE Restart
    BY <1>18 DEF Restart
  <1>19. CASE StoredExpires
    BY <1>19 DEF StoredExpires
  <1>20. ASSUME NEW short \in BOOLEAN, Reauthenticate(short)  PROVE TokensIssued'
    BY <1>20 DEF Reauthenticate, EntryOff
  <1>21. CASE UNCHANGED vars
    BY <1>21 DEF vars
  <1>22. QED
    BY <1>1, <1>2, <1>3, <1>4, <1>5, <1>6, <1>7, <1>8, <1>9, <1>10, <1>11, <1>12, <1>13,
       <1>14, <1>15, <1>16, <1>17, <1>18, <1>19, <1>20, <1>21
    DEF Next, CallerStep, Server, ServerAnswers

LEMMA UnusedStep == IInv /\ [Next]_vars => AnswersUnused'
  <1> USE TokenAssumption DEF IInv, TypeOK, StatesOK, Tokens, RefreshesSerial, InFlight,
     TokensIssued, AnswersUnused, Rotated, entryVars, authVars, callVars, storeVars,
     serverVars
  <1> SUFFICES ASSUME IInv, [Next]_vars PROVE AnswersUnused'
    OBVIOUS
  <1>1. ASSUME NEW c \in Callers, Call(c)  PROVE AnswersUnused'
    BY <1>1 DEF Call, Send, Waits
  <1>2. ASSUME NEW c \in Callers, Acquire(c)  PROVE AnswersUnused'
    <2>1. CASE fresh[at[c]]
      BY <1>2, <2>1 DEF Acquire, Leave
    <2>2. CASE ~fresh[at[c]]
      BY <1>2, <2>2 DEF Acquire, Send, RefreshesSerial
    <2>3. QED
      BY <2>1, <2>2
  <1>3. ASSUME NEW c \in Callers, Received(c)  PROVE AnswersUnused'
    BY <1>3 DEF Received, Unlock, Leave, PollGoesOn, FirstPoll, EntryOff
  <1>4. ASSUME NEW c \in Callers, Refused(c)  PROVE AnswersUnused'
    BY <1>4 DEF Refused, Unlock, Leave, PollStops, FirstPoll, EntryOff
  <1>5. ASSUME NEW c \in Callers, Failed(c)  PROVE AnswersUnused'
    BY <1>5 DEF Failed, Unlock, Leave, PollStops, FirstPoll, EntryOff
  <1>6. ASSUME NEW c \in Callers, Cancelled(c)  PROVE AnswersUnused'
    BY <1>6 DEF Cancelled, Unlock, Leave, PollStops, FirstPoll, EntryOff
  <1>7. ASSUME NEW c \in Callers, CancelCaller(c)  PROVE AnswersUnused'
    BY <1>7 DEF CancelCaller
  <1>8. ASSUME NEW c \in Callers, ServerRotates(c)  PROVE AnswersUnused'
    BY <1>8 DEF ServerRotates
  <1>9. ASSUME NEW c \in Callers, ServerKeeps(c)  PROVE AnswersUnused'
    BY <1>9 DEF ServerKeeps
  <1>10. ASSUME NEW c \in Callers, ServerDenies(c)  PROVE AnswersUnused'
    BY <1>10 DEF ServerDenies
  <1>11. ASSUME NEW c \in Callers, NetworkFails(c)  PROVE AnswersUnused'
    BY <1>11 DEF NetworkFails
  <1>12. ASSUME NEW a \in Auths, Setup(a)  PROVE AnswersUnused'
    BY <1>12 DEF Setup
  <1>13. ASSUME NEW a \in Auths, Expire(a)  PROVE AnswersUnused'
    BY <1>13 DEF Expire
  <1>14. CASE SetupEnds \/ PollRefused
    <2>1. UNCHANGED <<authVars, callVars, storeVars, serverVars>>
      BY <1>14 DEF SetupEnds, PollRefused
    <2> QED
      BY <2>1
  <1>15. CASE Unload
    BY <1>15 DEF Unload, EntryOff
  <1>16. CASE Save
    BY <1>16 DEF Save
  <1>17. CASE Crash
    BY <1>17 DEF Crash
  <1>18. CASE Restart
    BY <1>18 DEF Restart
  <1>19. CASE StoredExpires
    BY <1>19 DEF StoredExpires
  <1>20. ASSUME NEW short \in BOOLEAN, Reauthenticate(short)  PROVE AnswersUnused'
    BY <1>20 DEF Reauthenticate, EntryOff
  <1>21. CASE UNCHANGED vars
    BY <1>21 DEF vars
  <1>22. QED
    BY <1>1, <1>2, <1>3, <1>4, <1>5, <1>6, <1>7, <1>8, <1>9, <1>10, <1>11, <1>12, <1>13,
       <1>14, <1>15, <1>16, <1>17, <1>18, <1>19, <1>20, <1>21
    DEF Next, CallerStep, Server, ServerAnswers

-----------------------------------------------------------------------------
LEMMA InvInit == Init => IInv
  <1> SUFFICES ASSUME Init PROVE IInv
    OBVIOUS
  <1>1. FlagsOK
    BY DEF Init, FlagsOK
  <1>2. StatesOK
    BY TokenAssumption DEF Init, StatesOK, Tokens
  <1>3. RefreshesSerial
    BY TokenAssumption DEF Init, RefreshesSerial, InFlight
  <1>4. TokensIssued /\ AnswersUnused
    BY DEF Init, TokensIssued, AnswersUnused, Rotated
  <1>5. QED
    BY <1>1, <1>2, <1>3, <1>4 DEF IInv, TypeOK

LEMMA InvStep == IInv /\ [Next]_vars => IInv'
  BY TypeStep, SerialStep, IssuedStep, UnusedStep DEF IInv

\* The types, the lock, and who knows a token that was rotated.
THEOREM Invariant == Spec => []IInv
  BY InvInit, InvStep, PTL DEF Spec

\* However many callers find their access token expired at once, and however
\* many MyQAuths there are: one refresh at a time for each.
THEOREM StaysConsistent == Spec => []Consistent
  <1>1. IInv => Consistent
    BY DEF IInv, Consistent
  <1>2. QED
    BY <1>1, Invariant, PTL

-----------------------------------------------------------------------------
\* What is stored, the server's tokens and the answers on their way stay.
LEMMA Unaffected ==
  ASSUME stored' = stored, valid' = valid,
         \A c \in Callers : pc[c] = "tokens" => pc'[c] = "tokens" /\ answer'[c] = answer[c]
  PROVE  NoNewLoss
  BY DEF NoNewLoss, StoredUsable

LEMMA GrantStep == IInv /\ [Next]_vars => NoNewLoss
  <1> USE TokenAssumption DEF IInv, TypeOK, StatesOK, Tokens, RefreshesSerial, InFlight,
     TokensIssued, AnswersUnused, Rotated, entryVars, authVars, callVars, storeVars,
     serverVars
  <1> SUFFICES ASSUME IInv, [Next]_vars PROVE NoNewLoss
    OBVIOUS
  <1>1. ASSUME NEW c \in Callers, Call(c)  PROVE NoNewLoss
    BY <1>1, Unaffected DEF Call, Send
  <1>2. ASSUME NEW c \in Callers, Acquire(c)  PROVE NoNewLoss
    <2>1. CASE fresh[at[c]]
      BY <1>2, <2>1, Unaffected DEF Acquire, Leave
    <2>2. CASE ~fresh[at[c]]
      BY <1>2, <2>2, Unaffected DEF Acquire, Send
    <2>3. QED
      BY <2>1, <2>2
  <1>3. ASSUME NEW c \in Callers, Received(c)  PROVE NoNewLoss
    BY <1>3 DEF Received, Unlock, Leave, PollGoesOn, FirstPoll, EntryOff, NoNewLoss,
       StoredUsable, GrantDropped
  <1>4. ASSUME NEW c \in Callers, Refused(c)  PROVE NoNewLoss
    BY <1>4, Unaffected DEF Refused, Leave
  <1>5. ASSUME NEW c \in Callers, Failed(c)  PROVE NoNewLoss
    BY <1>5, Unaffected DEF Failed, Leave
  <1>6. ASSUME NEW c \in Callers, Cancelled(c)  PROVE NoNewLoss
    BY <1>6, Unaffected DEF Cancelled, Leave
  <1>7. ASSUME NEW c \in Callers, CancelCaller(c)  PROVE NoNewLoss
    <2>1. CASE pc[c] = "tokens"
      BY <1>7, <2>1 DEF NoNewLoss, GrantDropped
    <2>2. CASE pc[c] # "tokens"
      BY <1>7, <2>2, Unaffected DEF CancelCaller
    <2>3. QED
      BY <2>1, <2>2
  <1>8. ASSUME NEW c \in Callers, ServerRotates(c)  PROVE NoNewLoss
    <2>1. pc'[c] = "tokens" /\ answer'[c] = issued + 1 /\ issued + 1 \in valid'
      BY <1>8 DEF ServerRotates
    <2>2. StoredUsable'
      BY <2>1 DEF StoredUsable
    <2>3. QED
      BY <2>2 DEF NoNewLoss
  <1>9. ASSUME NEW c \in Callers, ServerKeeps(c)  PROVE NoNewLoss
    BY <1>9, Unaffected DEF ServerKeeps
  <1>10. ASSUME NEW c \in Callers, ServerDenies(c)  PROVE NoNewLoss
    BY <1>10, Unaffected DEF ServerDenies
  <1>11. ASSUME NEW c \in Callers, NetworkFails(c)  PROVE NoNewLoss
    <2>1. CASE pc[c] = "tokens"
      BY <1>11, <2>1 DEF NoNewLoss, GrantDropped
    <2>2. CASE pc[c] = "sent"
      BY <1>11, <2>2, Unaffected DEF NetworkFails
    <2>3. QED
      BY <1>11, <2>1, <2>2 DEF NetworkFails
  <1>12. ASSUME NEW a \in Auths, Setup(a)  PROVE NoNewLoss
    BY <1>12, Unaffected DEF Setup
  <1>13. ASSUME NEW a \in Auths, Expire(a)  PROVE NoNewLoss
    BY <1>13, Unaffected DEF Expire
  <1>14. CASE SetupEnds \/ PollRefused
    BY <1>14, Unaffected DEF SetupEnds, PollRefused, EntryOff
  <1>15. CASE Unload
    BY <1>15, Unaffected DEF Unload, EntryOff
  <1>16. CASE Save
    BY <1>16, Unaffected DEF Save
  <1>17. CASE Crash
    <2>1. CASE stored # disk \/ \E c \in Callers : pc[c] = "tokens"
      BY <1>17, <2>1 DEF NoNewLoss, GrantDropped
    <2>2. CASE stored = disk /\ \A c \in Callers : pc[c] # "tokens"
      BY <1>17, <2>2, Unaffected DEF Crash
    <2>3. QED
      BY <2>1, <2>2
  <1>18. CASE Restart
    BY <1>18, Unaffected DEF Restart
  <1>19. CASE StoredExpires
    BY <1>19, Unaffected DEF StoredExpires
  <1>20. ASSUME NEW short \in BOOLEAN, Reauthenticate(short)  PROVE NoNewLoss
    BY <1>20 DEF Reauthenticate, EntryOff, NoNewLoss, StoredUsable, GrantDropped
  <1>21. CASE UNCHANGED vars
    BY <1>21, Unaffected DEF vars
  <1>22. QED
    BY <1>1, <1>2, <1>3, <1>4, <1>5, <1>6, <1>7, <1>8, <1>9, <1>10, <1>11, <1>12, <1>13,
       <1>14, <1>15, <1>16, <1>17, <1>18, <1>19, <1>20, <1>21
    DEF Next, CallerStep, Server, ServerAnswers

\* Nothing but a lost answer, a crash, an answer of an earlier MyQAuth or the
\* reauthentication's own check leaves the entry with a retired token.
THEOREM GrantIsKept == Spec => GrantKept
  <1>1. IInv /\ [Next]_vars => [NoNewLoss]_vars
    BY GrantStep
  <1>2. QED
    BY <1>1, Invariant, PTL DEF Spec, GrantKept
=============================================================================
