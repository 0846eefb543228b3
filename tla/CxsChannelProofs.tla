--------------------------- MODULE CxsChannelProofs ---------------------------
(***************************************************************************)
(* Theorems about CxsChannel, for any number of opens, of packets on their *)
(* way, and of answers that the login and the probe may read; and about    *)
(* KeypadSelection, which its login calls.                                 *)
(***************************************************************************)
EXTENDS CxsChannel, KeypadSelection, SequenceTheorems, FiniteSetTheorems, TLAPS

-----------------------------------------------------------------------------
(* The inductive invariant.                                                *)

FlagsOK ==
    camera \in BOOLEAN /\ alive \in BOOLEAN /\ reading \in BOOLEAN /\ interrupted \in BOOLEAN

\* Where the opening task is; a session is held only between two opens.
TaskOK ==
    /\ op \in {"idle", "punch"} \cup Connecting \cup Waiting \cup Started
    /\ closing \in {"no", "begun", "done"}
    /\ reads \in 0 .. LoginReads + ProbeReads
    /\ op \in {"session", "probe"} => reads > 0
    /\ opens \in Numbers /\ held \in Numbers
    /\ held # 0 => op = "idle"
    /\ op # "idle" => opens # 0
    /\ draining \subseteq Opens /\ unanswered \subseteq Opens /\ unstopped \subseteq Opens

\* Connections: an open makes at most two, one after the other; no connection
\* is stored while a login makes its own.
ConnectionsOK ==
    /\ made \in Nat /\ conn \in 0 .. made /\ local \in 0 .. made
    /\ opened \subseteq 1 .. made
    /\ local # 0 => op \in {"redirect", "session"}
    /\ op \in Connecting => conn = 0
    /\ made <= 2 * opens
    /\ op \in {"redirect", "redirected"} => made < 2 * opens
    /\ op \in {"token", "connect"} => made + 1 < 2 * opens

\* The stream: a read that is between its awaits has a packet before it.
StreamOK ==
    /\ wire \in Seq(Numbers) /\ Len(wire) <= WireSize
    /\ head \in {"header", "rest"}
    /\ reading => op \in {"offer", "probe"} /\ head = "rest" /\ wire # <<>>

\* Offers on their way.  Each is made once and for an open that has begun; once
\* its open no longer waits for it, an open before it or that very one ended
\* without reading an offer.
OffersOK ==
    /\ asked \subseteq Opens /\ offer \in Numbers
    /\ \A o \in asked : o <= opens
    /\ \A i \in 1 .. Len(wire) : wire[i] <= opens /\ wire[i] \notin asked
    /\ \A i, j \in 1 .. Len(wire) : wire[i] = wire[j] /\ wire[i] # 0 => i = j
    /\ op \in Connecting \cup {"ready"} =>
          /\ \A o \in asked : o < opens
          /\ \A i \in 1 .. Len(wire) : wire[i] < opens

Overtaken(o) == \E u \in unanswered : u <= o

\* The wait for the offer of open o is over, or yet to begin.
WaitOver(o) == o < opens \/ op \notin {"require", "offer"}

OffersLate ==
    /\ \A o \in asked : WaitOver(o) => Overtaken(o)
    /\ \A i \in 1 .. Len(wire) : wire[i] # 0 /\ WaitOver(wire[i]) => Overtaken(wire[i])

\* The commands, and why an open's start has no stop after it yet.
Stopped(s, j) == \E k \in j + 1 .. Len(s) : s[k] = Command("stop", s[j].open)

LogOK == log \in Seq([verb : {"require", "start", "modify", "stop"}, open : Opens])

\* A video that was started belongs to the open in progress, or to the session
\* that is held, or its open failed.
StillOn(o) == (o = opens /\ op \in Started) \/ o = held \/ o \in unstopped

StartsAccounted ==
    \A j \in 1 .. Len(log) : log[j].verb = "start" =>
        StillOn(log[j].open) \/ Stopped(log, j)

IInv ==
    /\ FlagsOK /\ TaskOK /\ ConnectionsOK /\ StreamOK
    /\ OffersOK /\ OffersLate /\ OffersMatch /\ AlignedBetweenReads
    /\ LogOK /\ StartsAccounted /\ StreamsStopped

-----------------------------------------------------------------------------
(* Steps.                                                                  *)

\* A packet is taken from the stream.
LEMMA TailFacts ==
    ASSUME StreamOK, wire # <<>>, wire' = Tail(wire)
    PROVE  /\ wire' \in Seq(Numbers) /\ Len(wire) \in Nat /\ Len(wire') = Len(wire) - 1
           /\ Len(wire') <= WireSize
           /\ Head(wire) = wire[1] /\ 1 \in 1 .. Len(wire) /\ wire[1] \in Numbers
           /\ \A i \in 1 .. Len(wire') : i + 1 \in 1 .. Len(wire) /\ wire'[i] = wire[i + 1]
<1>1. wire \in Seq(Numbers) /\ Len(wire) \in Nat /\ Len(wire) <= WireSize
  BY LenProperties DEF StreamOK
<1>2. wire' \in Seq(Numbers) /\ Len(wire') = Len(wire) - 1
      /\ \A i \in 1 .. Len(wire') : wire'[i] = wire[i + 1]
  BY <1>1, HeadTailProperties
<1>3. Len(wire) > 0
  BY <1>1, EmptySeq
<1>4. Len(wire') <= WireSize
  BY <1>1, <1>2, BoundsAssumption
<1>5. 1 \in 1 .. Len(wire) /\ Head(wire) = wire[1]
  BY <1>1, <1>3
<1>6. wire[1] \in Numbers
  BY <1>1, <1>5, ElementOfSeq
<1> QED
  BY <1>1, <1>2, <1>3, <1>4, <1>5, <1>6

\* The packet that is read next.
LEMMA HeadFacts ==
    ASSUME StreamOK, wire # <<>>
    PROVE  Head(wire) = wire[1] /\ 1 \in 1 .. Len(wire) /\ wire[1] \in Numbers
<1>1. wire \in Seq(Numbers) /\ Len(wire) \in Nat /\ Len(wire) > 0
  BY LenProperties, EmptySeq DEF StreamOK
<1>2. 1 \in 1 .. Len(wire) /\ Head(wire) = wire[1]
  BY <1>1
<1> QED
  BY <1>1, <1>2, ElementOfSeq

\* A packet is put on the stream.
LEMMA AppendFacts ==
    ASSUME StreamOK, NEW p \in Numbers, Len(wire) < WireSize, wire' = Append(wire, p)
    PROVE  /\ wire' \in Seq(Numbers) /\ Len(wire') <= WireSize /\ wire' # <<>>
           /\ Len(wire) \in Nat /\ Len(wire') = Len(wire) + 1 /\ wire'[Len(wire) + 1] = p
           /\ \A i \in 1 .. Len(wire) : wire'[i] = wire[i]
<1>1. wire \in Seq(Numbers) /\ Len(wire) \in Nat
  BY LenProperties DEF StreamOK
<1>2. /\ wire' \in Seq(Numbers) /\ wire' # <<>> /\ Len(wire') = Len(wire) + 1
      /\ wire'[Len(wire) + 1] = p /\ \A i \in 1 .. Len(wire) : wire'[i] = wire[i]
  BY <1>1, AppendProperties
<1> QED
  BY <1>1, <1>2, BoundsAssumption

\* The manager lets go of the session it holds.
LEMMA HeldFacts ==
    ASSUME TaskOK, StopHeld
    PROVE  held' = 0 /\ draining' \subseteq Opens
<1> USE DEF TaskOK, Numbers, Opens
<1>1. CASE held = 0
  BY <1>1 DEF StopHeld
<1>2. CASE held # 0
  <2>1. draining' = draining \cup {held} /\ held' = 0
    BY <1>2 DEF StopHeld
  <2>2. held \in Opens
    BY <1>2
  <2> QED
    BY <2>1, <2>2
<1> QED
  BY <1>1, <1>2

\* The open in progress, if any, ends.
LEMMA GiveUpFacts ==
    ASSUME TaskOK, IF op = "idle" THEN UNCHANGED <<op, streamVars, historyVars>> ELSE GiveUpOpen
    PROVE  /\ op' = "idle"
           /\ unanswered \subseteq unanswered' /\ unanswered' \subseteq Opens
           /\ unstopped \subseteq unstopped' /\ unstopped' \subseteq Opens
           /\ op \in Waiting => opens \in unanswered'
           /\ op \in Started => opens \in unstopped'
<1> USE DEF TaskOK, Numbers, Opens
<1>1. CASE op = "idle"
  BY <1>1 DEF historyVars, Waiting, Started
<1>2. CASE op # "idle"
  <2>1. opens \in Opens /\ GiveUpOpen
    BY <1>2
  <2>2. op' = "idle"
    BY <2>1 DEF GiveUpOpen
  <2>3. unanswered' = IF op \in Waiting THEN unanswered \cup {opens} ELSE unanswered
    BY <2>1 DEF GiveUpOpen
  <2>4. unstopped' = IF op \in Started THEN unstopped \cup {opens} ELSE unstopped
    BY <2>1 DEF GiveUpOpen
  <2> QED
    BY <2>1, <2>2, <2>3, <2>4
<1> QED
  BY <1>1, <1>2

Commands == [verb : {"require", "start", "modify", "stop"}, open : Opens]

\* One command more in the log.
Logged(c) ==
    /\ Len(log) \in Nat /\ Len(log') = Len(log) + 1
    /\ DOMAIN log = 1 .. Len(log) /\ DOMAIN log' = 1 .. Len(log')
    /\ log'[Len(log) + 1] = c
    /\ \A i \in 1 .. Len(log) : log'[i] = log[i] /\ log[i] \in Commands

LEMMA WriteFacts ==
    ASSUME LogOK, NEW c \in Commands, Write(<<c>>)
    PROVE  LogOK' /\ Logged(c)
<1>1. log \in Seq(Commands) /\ Len(log) \in Nat /\ DOMAIN log = 1 .. Len(log)
  BY LenProperties DEF LogOK, Commands
<1>2. <<c>> \in Seq(Commands) /\ Len(<<c>>) = 1 /\ <<c>>[1] = c
  OBVIOUS
<1>3. log' = log \o <<c>>
  BY DEF Write
<1>4. /\ log' \in Seq(Commands) /\ Len(log') = Len(log) + 1
      /\ \A i \in 1 .. Len(log) + 1 : log'[i] = IF i <= Len(log) THEN log[i] ELSE <<c>>[i - Len(log)]
  BY <1>1, <1>2, <1>3, ConcatProperties
<1>5. DOMAIN log' = 1 .. Len(log')
  BY <1>4, LenProperties
<1>6. log'[Len(log) + 1] = c
  BY <1>1, <1>2, <1>4
<1>7. \A i \in 1 .. Len(log) : log'[i] = log[i] /\ log[i] \in Commands
  BY <1>1, <1>4, ElementOfSeq
<1> QED
  BY <1>1, <1>4, <1>5, <1>6, <1>7 DEF Logged, LogOK, Commands

LEMMA InitIInv == Init => IInv
<1> SUFFICES ASSUME Init PROVE IInv
  OBVIOUS
<1> USE BoundsAssumption DEF Init
<1>1. FlagsOK /\ AlignedBetweenReads
  BY DEF FlagsOK, AlignedBetweenReads
<1>2. TaskOK
  BY DEF TaskOK, Numbers, Opens
<1>3. ConnectionsOK
  BY DEF ConnectionsOK, Connecting
<1>4. StreamOK /\ OffersOK /\ OffersLate /\ OffersMatch
  BY DEF StreamOK, OffersOK, OffersLate, OffersMatch, Numbers, Opens, Started
<1>5. LogOK /\ StartsAccounted /\ StreamsStopped
  BY DEF LogOK, StartsAccounted, StreamsStopped
<1> QED
  BY <1>1, <1>2, <1>3, <1>4, <1>5 DEF IInv

\* The Boolean variables.
LEMMA FlagsStep == IInv /\ [Next]_vars => FlagsOK'
<1> SUFFICES ASSUME IInv, [Next]_vars PROVE FlagsOK'
  OBVIOUS
<1> USE DEF IInv, FlagsOK, loginVars, sessionVars, historyVars, streamVars
<1>1. CASE OpenBegins
  BY Zenon, <1>1 DEF OpenBegins
<1>2. CASE TokenGiven
  BY Zenon, <1>2 DEF TokenGiven
<1>3. CASE Connected
  BY Zenon, <1>3 DEF Connected, Connect
<1>4. CASE Reconnected
  BY Zenon, <1>4 DEF Reconnected, Connect
<1>5. CASE RedirectRead
  BY Zenon, <1>5 DEF RedirectRead, CloseLocal
<1>6. CASE SessionRead
  BY Zenon, <1>6 DEF SessionRead
<1>7. CASE OtherRead
  BY Zenon, <1>7 DEF OtherRead, CloseLocal
<1>8. CASE LoginFails
  BY Zenon, <1>8 DEF LoginFails
<1>9. CASE SendRequire
  BY Zenon, <1>9 DEF SendRequire, Write
<1>10. CASE RequireDrained
  BY Zenon, <1>10 DEF RequireDrained
<1>11. CASE OfferRead
  BY Zenon, <1>11 DEF OfferRead, ReadRest, IsOffer
<1>12. CASE ReadHeader
  BY Zenon, <1>12 DEF ReadHeader
<1>13. CASE PunchSucceeds
  BY Zenon, <1>13 DEF PunchSucceeds, Write
<1>14. CASE StartDrained
  BY Zenon, <1>14 DEF StartDrained, Write
<1>15. CASE ModifyDrained
  BY Zenon, <1>15 DEF ModifyDrained
<1>16. CASE ProbeRead
  BY Zenon, <1>16 DEF ProbeRead, ReadRest, OpenSucceeds
<1>17. CASE OfferTimesOut
  BY Zenon, <1>17 DEF OfferTimesOut, GiveUpOpen, GiveUpRead
<1>18. CASE ProbeTimesOut
  BY Zenon, <1>18 DEF ProbeTimesOut, GiveUpRead, OpenSucceeds
<1>19. CASE OpenFails
  BY Zenon, <1>19 DEF OpenFails, Fails, GiveUpOpen, GiveUpRead
<1>20. CASE Release
  BY Zenon, <1>20 DEF Release, StopHeld, Write
<1>21. CASE StopDrained
  BY Zenon, <1>21 DEF StopDrained
<1>22. CASE CloseBegins
  BY Zenon, <1>22 DEF CloseBegins, StopHeld, Write, GiveUpOpen, GiveUpRead
<1>23. CASE CloseEnds
  BY Zenon, <1>23 DEF CloseEnds
<1>24. CASE ServerSends
  BY Zenon, <1>24 DEF ServerSends, Arrives
<1>25. CASE CameraOffers
  BY Zenon, <1>25 DEF CameraOffers, Arrives
<1>26. CASE ConnectionLost
  BY Zenon, <1>26 DEF ConnectionLost
<1>27. CASE UNCHANGED vars
  BY Zenon, <1>27 DEF vars, loginVars, sessionVars, historyVars, streamVars
<1> QED
  BY <1>1, <1>2, <1>3, <1>4, <1>5, <1>6, <1>7, <1>8, <1>9, <1>10, <1>11, <1>12, <1>13,
     <1>14, <1>15, <1>16, <1>17, <1>18, <1>19, <1>20, <1>21, <1>22, <1>23, <1>24, <1>25,
     <1>26, <1>27
  DEF Next, LoginStep, OpenStep

\* What the opening task is at, and what it counts.
LEMMA TaskStep == IInv /\ [Next]_vars => TaskOK'
<1> SUFFICES ASSUME IInv, [Next]_vars PROVE TaskOK'
  OBVIOUS
<1> USE BoundsAssumption DEF IInv, TaskOK, FlagsOK, Numbers, Opens, Connecting, Waiting,
      Started, loginVars, sessionVars, historyVars, streamVars
<1>1. CASE OpenBegins
  BY <1>1 DEF OpenBegins
<1>2. CASE TokenGiven
  BY <1>2 DEF TokenGiven
<1>3. CASE Connected
  BY <1>3 DEF Connected, Connect
<1>4. CASE Reconnected
  BY <1>4 DEF Reconnected, Connect
<1>5. CASE RedirectRead
  BY <1>5 DEF RedirectRead, CloseLocal
<1>6. CASE SessionRead
  BY <1>6 DEF SessionRead
<1>7. CASE OtherRead
  BY <1>7 DEF OtherRead, CloseLocal
<1>8. CASE LoginFails
  BY <1>8 DEF LoginFails
<1>9. CASE SendRequire
  BY <1>9 DEF SendRequire, Write
<1>10. CASE RequireDrained
  BY <1>10 DEF RequireDrained
<1>11. CASE OfferRead
  BY <1>11 DEF OfferRead, ReadRest, IsOffer
<1>12. CASE ReadHeader
  BY <1>12 DEF ReadHeader
<1>13. CASE PunchSucceeds
  BY <1>13 DEF PunchSucceeds, Write
<1>14. CASE StartDrained
  BY <1>14 DEF StartDrained, Write
<1>15. CASE ModifyDrained
  BY <1>15 DEF ModifyDrained
<1>16. CASE ProbeRead
  BY <1>16 DEF ProbeRead, ReadRest, OpenSucceeds
<1>17. CASE OfferTimesOut
  BY <1>17 DEF OfferTimesOut, GiveUpOpen, GiveUpRead
<1>18. CASE ProbeTimesOut
  BY <1>18 DEF ProbeTimesOut, GiveUpRead, OpenSucceeds
<1>19. CASE OpenFails
  BY <1>19 DEF OpenFails, Fails, GiveUpOpen, GiveUpRead
<1>20. CASE Release
    <2>1. held' = 0 /\ draining' \subseteq Opens
      BY <1>20, HeldFacts DEF Release
    <2> QED
      BY <1>20, <2>1 DEF Release
<1>21. CASE StopDrained
  BY <1>21 DEF StopDrained
<1>22. CASE CloseBegins
    <2>1. held' = 0 /\ draining' \subseteq Opens
      BY <1>22, HeldFacts DEF CloseBegins
    <2>2. closing' = "begun" /\ UNCHANGED <<reads, opens>>
      BY <1>22 DEF CloseBegins
    <2>3. op' = "idle" /\ unanswered' \subseteq Opens /\ unstopped' \subseteq Opens
      BY <1>22, GiveUpFacts DEF CloseBegins
    <2> QED
      BY <2>1, <2>2, <2>3
<1>23. CASE CloseEnds
  BY <1>23 DEF CloseEnds
<1>24. CASE ServerSends
  BY <1>24 DEF ServerSends, Arrives
<1>25. CASE CameraOffers
  BY <1>25 DEF CameraOffers, Arrives
<1>26. CASE ConnectionLost
  BY <1>26 DEF ConnectionLost
<1>27. CASE UNCHANGED vars
  BY <1>27 DEF vars, loginVars, sessionVars, historyVars, streamVars
<1> QED
  BY <1>1, <1>2, <1>3, <1>4, <1>5, <1>6, <1>7, <1>8, <1>9, <1>10, <1>11, <1>12, <1>13,
     <1>14, <1>15, <1>16, <1>17, <1>18, <1>19, <1>20, <1>21, <1>22, <1>23, <1>24, <1>25,
     <1>26, <1>27
  DEF Next, LoginStep, OpenStep

\* Connections are made one after the other.
LEMMA ConnectionsStep == IInv /\ [Next]_vars => ConnectionsOK'
<1> SUFFICES ASSUME IInv, [Next]_vars PROVE ConnectionsOK'
  OBVIOUS
<1> USE BoundsAssumption DEF IInv, TaskOK, ConnectionsOK, Numbers, Opens, Connecting,
      Waiting, Started, loginVars, sessionVars, historyVars, streamVars
<1>1. CASE OpenBegins
    <2>1. op = "idle" /\ opens' = opens + 1 /\ UNCHANGED <<local, made>>
      BY <1>1 DEF OpenBegins
    <2>2. CASE camera
      <3>1. op' = "ready" /\ UNCHANGED <<conn, opened>>
        BY Zenon, <1>1, <2>2 DEF OpenBegins
      <3> QED
        BY <2>1, <3>1
    <2>3. CASE ~camera
      <3>1. op' = "token" /\ conn' = 0 /\ opened' = opened \ {conn}
        BY Zenon, <1>1, <2>3 DEF OpenBegins
      <3> QED
        BY <2>1, <3>1
    <2> QED
      BY <2>2, <2>3
<1>2. CASE TokenGiven
  BY <1>2 DEF TokenGiven
<1>3. CASE Connected
  BY <1>3 DEF Connected, Connect
<1>4. CASE Reconnected
  BY <1>4 DEF Reconnected, Connect
<1>5. CASE RedirectRead
  BY <1>5 DEF RedirectRead, CloseLocal
<1>6. CASE SessionRead
  BY <1>6 DEF SessionRead
<1>7. CASE OtherRead
  BY <1>7 DEF OtherRead, CloseLocal
<1>8. CASE LoginFails
  BY <1>8 DEF LoginFails
<1>9. CASE SendRequire
  BY <1>9 DEF SendRequire, Write
<1>10. CASE RequireDrained
  BY <1>10 DEF RequireDrained
<1>11. CASE OfferRead
  BY <1>11 DEF OfferRead, ReadRest, IsOffer
<1>12. CASE PunchSucceeds
  BY <1>12 DEF PunchSucceeds, Write
<1>13. CASE StartDrained
  BY <1>13 DEF StartDrained, Write
<1>14. CASE ModifyDrained
  BY <1>14 DEF ModifyDrained
<1>15. CASE ProbeRead
  BY <1>15 DEF ProbeRead, ReadRest, OpenSucceeds
<1>16. CASE OfferTimesOut
  BY <1>16 DEF OfferTimesOut, GiveUpOpen, GiveUpRead
<1>17. CASE ProbeTimesOut
  BY <1>17 DEF ProbeTimesOut, GiveUpRead, OpenSucceeds
<1>18. CASE OpenFails
  BY <1>18 DEF OpenFails, Fails, GiveUpOpen, GiveUpRead
<1>19. CASE CloseBegins
  BY <1>19 DEF CloseBegins, StopHeld, Write, GiveUpOpen, GiveUpRead
<1>20. CASE CloseEnds
  BY <1>20 DEF CloseEnds
<1>21. CASE UNCHANGED <<op, opens, conn, local, made, opened>>
  BY <1>21
<1> QED
  BY <1>1, <1>2, <1>3, <1>4, <1>5, <1>6, <1>7, <1>8, <1>9, <1>10, <1>11, <1>12, <1>13,
     <1>14, <1>15, <1>16, <1>17, <1>18, <1>19, <1>20, <1>21
  DEF Next, LoginStep, OpenStep, vars, loginVars, sessionVars, historyVars, streamVars,
     ReadHeader, Release, StopHeld, Write, StopDrained, ServerSends, Arrives, CameraOffers,
     ConnectionLost

\* A read that ends leaves the stream at a header, or is recorded as given up.
LEMMA AlignedStep == IInv /\ [Next]_vars => AlignedBetweenReads'
<1> SUFFICES ASSUME IInv, [Next]_vars PROVE AlignedBetweenReads'
  OBVIOUS
<1> USE DEF IInv, FlagsOK, AlignedBetweenReads, loginVars, sessionVars, historyVars, streamVars
<1>1. CASE OpenBegins
  BY Zenon, <1>1 DEF OpenBegins
<1>2. CASE TokenGiven
  BY Zenon, <1>2 DEF TokenGiven
<1>3. CASE Connected
  BY Zenon, <1>3 DEF Connected, Connect
<1>4. CASE Reconnected
  BY Zenon, <1>4 DEF Reconnected, Connect
<1>5. CASE RedirectRead
  BY Zenon, <1>5 DEF RedirectRead, CloseLocal
<1>6. CASE SessionRead
  BY Zenon, <1>6 DEF SessionRead
<1>7. CASE OtherRead
  BY Zenon, <1>7 DEF OtherRead, CloseLocal
<1>8. CASE LoginFails
  BY Zenon, <1>8 DEF LoginFails
<1>9. CASE SendRequire
  BY Zenon, <1>9 DEF SendRequire, Write
<1>10. CASE RequireDrained
  BY Zenon, <1>10 DEF RequireDrained
<1>11. CASE OfferRead
  BY Zenon, <1>11 DEF OfferRead, ReadRest, IsOffer
<1>12. CASE ReadHeader
  BY Zenon, <1>12 DEF ReadHeader
<1>13. CASE PunchSucceeds
  BY Zenon, <1>13 DEF PunchSucceeds, Write
<1>14. CASE StartDrained
  BY Zenon, <1>14 DEF StartDrained, Write
<1>15. CASE ModifyDrained
  BY Zenon, <1>15 DEF ModifyDrained
<1>16. CASE ProbeRead
  BY Zenon, <1>16 DEF ProbeRead, ReadRest, OpenSucceeds
<1>17. CASE OfferTimesOut
  BY Zenon, <1>17 DEF OfferTimesOut, GiveUpOpen, GiveUpRead
<1>18. CASE ProbeTimesOut
  BY Zenon, <1>18 DEF ProbeTimesOut, GiveUpRead, OpenSucceeds
<1>19. CASE OpenFails
  BY Zenon, <1>19 DEF OpenFails, Fails, GiveUpOpen, GiveUpRead
<1>20. CASE Release
    BY Zenon, <1>20 DEF Release
<1>21. CASE StopDrained
    <2>1. UNCHANGED <<reading, head, interrupted>>
      BY <1>21 DEF StopDrained
    <2> QED
      BY Zenon, <2>1
<1>22. CASE CloseBegins
    <2>1. CASE op = "idle"
      BY Zenon, <1>22, <2>1 DEF CloseBegins
    <2>2. CASE op # "idle"
      BY Zenon, <1>22, <2>2 DEF CloseBegins, GiveUpOpen, GiveUpRead
    <2> QED
      BY <2>1, <2>2
<1>23. CASE CloseEnds
  BY Zenon, <1>23 DEF CloseEnds
<1>24. CASE ServerSends
  BY Zenon, <1>24 DEF ServerSends, Arrives
<1>25. CASE CameraOffers
    <2>1. UNCHANGED <<reading, head, interrupted>>
      BY <1>25 DEF CameraOffers, Arrives
    <2> QED
      BY Zenon, <2>1
<1>26. CASE ConnectionLost
  BY Zenon, <1>26 DEF ConnectionLost
<1>27. CASE UNCHANGED vars
  BY Zenon, <1>27 DEF vars, loginVars, sessionVars, historyVars, streamVars
<1> QED
  BY <1>1, <1>2, <1>3, <1>4, <1>5, <1>6, <1>7, <1>8, <1>9, <1>10, <1>11, <1>12, <1>13,
     <1>14, <1>15, <1>16, <1>17, <1>18, <1>19, <1>20, <1>21, <1>22, <1>23, <1>24, <1>25,
     <1>26, <1>27
  DEF Next, LoginStep, OpenStep

\* The stream and the read that is in it.
LEMMA StreamStep == IInv /\ [Next]_vars => StreamOK'
<1> SUFFICES ASSUME IInv, [Next]_vars PROVE StreamOK'
  OBVIOUS
<1> USE BoundsAssumption DEF IInv, StreamOK, OffersOK, Numbers, Opens, Connecting,
      loginVars, sessionVars, historyVars, streamVars
<1>1. CASE OpenBegins
  BY <1>1 DEF OpenBegins
<1>2. CASE TokenGiven
  BY <1>2 DEF TokenGiven
<1>3. CASE Connected
  BY <1>3 DEF Connected, Connect
<1>4. CASE Reconnected
  BY <1>4 DEF Reconnected, Connect
<1>5. CASE RedirectRead
    <2>1. wire # <<>> /\ wire' = Tail(wire) /\ ~reading /\ UNCHANGED <<head, reading>>
      BY <1>5 DEF RedirectRead
    <2> QED
      BY <1>5, <2>1, TailFacts DEF RedirectRead
<1>6. CASE SessionRead
    <2>1. wire # <<>> /\ wire' = Tail(wire) /\ ~reading /\ UNCHANGED <<head, reading>>
      BY <1>6 DEF SessionRead
    <2> QED
      BY <1>6, <2>1, TailFacts DEF SessionRead
<1>7. CASE OtherRead
    <2>1. wire # <<>> /\ wire' = Tail(wire) /\ ~reading /\ UNCHANGED <<head, reading>>
      BY <1>7 DEF OtherRead
    <2> QED
      BY <1>7, <2>1, TailFacts DEF OtherRead
<1>8. CASE LoginFails
  BY <1>8 DEF LoginFails
<1>9. CASE SendRequire
    <2>1. ~reading /\ reading' = reading /\ UNCHANGED <<wire, head>>
      BY <1>9 DEF SendRequire
    <2>2. ~reading'
      BY Zenon, <2>1
    <2> QED
      BY <2>1, <2>2
<1>10. CASE RequireDrained
  BY <1>10 DEF RequireDrained
<1>11. CASE OfferRead
    <2>1. wire # <<>> /\ wire' = Tail(wire) /\ reading' = FALSE /\ head' = "header"
      BY <1>11 DEF OfferRead, ReadRest
    <2> QED
      BY <1>11, <2>1, TailFacts DEF OfferRead, ReadRest
<1>12. CASE ReadHeader
  BY <1>12 DEF ReadHeader
<1>13. CASE PunchSucceeds
  BY <1>13 DEF PunchSucceeds, Write
<1>14. CASE StartDrained
  BY <1>14 DEF StartDrained, Write
<1>15. CASE ModifyDrained
  BY <1>15 DEF ModifyDrained
<1>16. CASE ProbeRead
    <2>1. wire # <<>> /\ wire' = Tail(wire) /\ reading' = FALSE /\ head' = "header"
      BY <1>16 DEF ProbeRead, ReadRest
    <2> QED
      BY <1>16, <2>1, TailFacts DEF ProbeRead, ReadRest
<1>17. CASE OfferTimesOut
  BY <1>17 DEF OfferTimesOut, GiveUpOpen, GiveUpRead
<1>18. CASE ProbeTimesOut
  BY <1>18 DEF ProbeTimesOut, GiveUpRead, OpenSucceeds
<1>19. CASE OpenFails
  BY <1>19 DEF OpenFails, Fails, GiveUpOpen, GiveUpRead
<1>20. CASE Release
  BY <1>20 DEF Release, StopHeld, Write
<1>21. CASE StopDrained
  BY <1>21 DEF StopDrained
<1>22. CASE CloseBegins
  BY <1>22 DEF CloseBegins, StopHeld, Write, GiveUpOpen, GiveUpRead
<1>23. CASE CloseEnds
  BY <1>23 DEF CloseEnds
<1>24. CASE ServerSends
    <2>1. PICK p \in Numbers : Arrives(p)
      BY <1>24 DEF ServerSends
    <2>2. Len(wire) < WireSize /\ wire' = Append(wire, p) /\ UNCHANGED <<op, head, reading>>
      BY <2>1 DEF Arrives
    <2> QED
      BY <2>2, AppendFacts
<1>25. CASE CameraOffers
    <2>1. PICK p \in Numbers : Arrives(p)
      BY <1>25 DEF CameraOffers
    <2>2. Len(wire) < WireSize /\ wire' = Append(wire, p) /\ UNCHANGED <<op, head, reading>>
      BY <2>1 DEF Arrives
    <2> QED
      BY <2>2, AppendFacts
<1>26. CASE ConnectionLost
  BY <1>26 DEF ConnectionLost
<1>27. CASE UNCHANGED vars
  BY <1>27 DEF vars, loginVars, sessionVars, historyVars, streamVars
<1> QED
  BY <1>1, <1>2, <1>3, <1>4, <1>5, <1>6, <1>7, <1>8, <1>9, <1>10, <1>11, <1>12, <1>13,
     <1>14, <1>15, <1>16, <1>17, <1>18, <1>19, <1>20, <1>21, <1>22, <1>23, <1>24, <1>25,
     <1>26, <1>27
  DEF Next, LoginStep, OpenStep

\* Each offer is on its way once, and for an open that has begun.
LEMMA OffersStep == IInv /\ [Next]_vars => OffersOK'
<1> SUFFICES ASSUME IInv, [Next]_vars PROVE OffersOK'
  OBVIOUS
<1> USE BoundsAssumption DEF IInv, TaskOK, StreamOK, OffersOK, Numbers, Opens,
      Connecting, Waiting, Started, loginVars, sessionVars, historyVars, streamVars
<1>1. CASE OpenBegins
  BY <1>1 DEF OpenBegins
<1>2. CASE Connected
  BY <1>2 DEF Connected, Connect
<1>3. CASE Reconnected
  BY <1>3 DEF Reconnected, Connect
<1>4. CASE RedirectRead
    <2>1. wire # <<>> /\ wire' = Tail(wire) /\ UNCHANGED <<opens, asked, offer>>
          /\ op \in Connecting
      BY <1>4 DEF RedirectRead
    <2> QED
      BY SMTT(30), <2>1, TailFacts
<1>5. CASE SessionRead
    <2>1. wire # <<>> /\ wire' = Tail(wire) /\ UNCHANGED <<opens, asked, offer>>
          /\ op \in Connecting
      BY <1>5 DEF SessionRead
    <2> QED
      BY <2>1, TailFacts
<1>6. CASE OtherRead
    <2>1. wire # <<>> /\ wire' = Tail(wire) /\ UNCHANGED <<opens, asked, offer>>
          /\ op \in Connecting
      BY <1>6 DEF OtherRead
    <2> QED
      BY <2>1, TailFacts
<1>7. CASE SendRequire
  BY <1>7 DEF SendRequire, Write
<1>8. CASE OfferRead
    <2>1. wire # <<>> /\ wire' = Tail(wire) /\ UNCHANGED <<opens, asked>>
          /\ offer' \in {offer, Head(wire)} /\ op' \in {"offer", "punch"}
      BY <1>8 DEF OfferRead, ReadRest
    <2> QED
      BY SMTT(30), <2>1, TailFacts
<1>9. CASE ProbeRead
    <2>1. wire # <<>> /\ wire' = Tail(wire) /\ UNCHANGED <<opens, asked, offer>>
          /\ op' \in {"probe", "idle"}
      BY <1>9 DEF ProbeRead, ReadRest, OpenSucceeds
    <2> QED
      BY SMTT(30), <2>1, TailFacts
<1>10. CASE ServerSends
    <2>1. PICK p \in Numbers : Arrives(p) /\ p = 0 /\ UNCHANGED asked
      BY <1>10 DEF ServerSends
    <2>2. /\ Len(wire) < WireSize /\ wire' = Append(wire, p)
          /\ UNCHANGED <<op, opens, offer>> /\ asked' \subseteq asked
      BY <2>1 DEF Arrives
    <2>3. p = 0 \/ p \in asked \ asked'
      BY <2>1
    <2>4. /\ wire'[Len(wire) + 1] = p /\ Len(wire') = Len(wire) + 1 /\ Len(wire) \in Nat
          /\ \A i \in 1 .. Len(wire) : wire'[i] = wire[i]
      BY <2>2, AppendFacts
    <2>5. \A i \in 1 .. Len(wire') : i \in 1 .. Len(wire) \/ i = Len(wire) + 1
      BY <2>4
    <2>6. opens \in Nat /\ (p = 0 => p <= opens /\ (op \in Connecting \cup {"ready"} => p < opens))
      OBVIOUS
    <2>7. \A i \in 1 .. Len(wire') : wire'[i] <= opens /\ wire'[i] \notin asked'
      BY <2>2, <2>3, <2>4, <2>5, <2>6
    <2>8. \A i, j \in 1 .. Len(wire') : wire'[i] = wire'[j] /\ wire'[i] # 0 => i = j
      BY <2>2, <2>3, <2>4, <2>5
    <2>9. op \in Connecting \cup {"ready"} => \A i \in 1 .. Len(wire') : wire'[i] < opens
      BY <2>2, <2>3, <2>4, <2>5, <2>6
    <2> QED
      BY <2>2, <2>7, <2>8, <2>9
<1>11. CASE CameraOffers
    <2>1. PICK p \in Numbers : Arrives(p) /\ p \in asked /\ asked' = asked \ {p}
      BY <1>11 DEF CameraOffers, Arrives
    <2>2. /\ Len(wire) < WireSize /\ wire' = Append(wire, p)
          /\ UNCHANGED <<op, opens, offer>> /\ asked' \subseteq asked
      BY <2>1 DEF Arrives
    <2>3. p = 0 \/ p \in asked \ asked'
      BY <2>1
    <2>4. /\ wire'[Len(wire) + 1] = p /\ Len(wire') = Len(wire) + 1 /\ Len(wire) \in Nat
          /\ \A i \in 1 .. Len(wire) : wire'[i] = wire[i]
      BY <2>2, AppendFacts
    <2>5. \A i \in 1 .. Len(wire') : i \in 1 .. Len(wire) \/ i = Len(wire) + 1
      BY <2>4
    <2>6. opens \in Nat /\ (p = 0 => p <= opens /\ (op \in Connecting \cup {"ready"} => p < opens))
      OBVIOUS
    <2>7. \A i \in 1 .. Len(wire') : wire'[i] <= opens /\ wire'[i] \notin asked'
      BY <2>2, <2>3, <2>4, <2>5, <2>6
    <2>8. \A i, j \in 1 .. Len(wire') : wire'[i] = wire'[j] /\ wire'[i] # 0 => i = j
      BY <2>2, <2>3, <2>4, <2>5
    <2>9. op \in Connecting \cup {"ready"} => \A i \in 1 .. Len(wire') : wire'[i] < opens
      BY <2>2, <2>3, <2>4, <2>5, <2>6
    <2> QED
      BY <2>2, <2>7, <2>8, <2>9
<1>12. CASE /\ UNCHANGED <<wire, asked, opens, offer>>
            /\ op' \in Connecting \cup {"ready"} => op \in Connecting \cup {"ready"}
  <2>1. UNCHANGED <<wire, asked, opens, offer>>
    BY <1>12
  <2> USE <2>1
  <2>2. asked' \subseteq Opens /\ offer' \in Numbers /\ \A o \in asked' : o <= opens'
    OBVIOUS
  <2>3. /\ \A i \in 1 .. Len(wire') : wire'[i] <= opens' /\ wire'[i] \notin asked'
        /\ \A i, j \in 1 .. Len(wire') : wire'[i] = wire'[j] /\ wire'[i] # 0 => i = j
    OBVIOUS
  <2>4. ASSUME op' \in Connecting \cup {"ready"}
        PROVE  /\ \A o \in asked' : o < opens'
               /\ \A i \in 1 .. Len(wire') : wire'[i] < opens'
    <3>1. op \in Connecting \cup {"ready"}
      BY <1>12, <2>4
    <3> QED
      BY <3>1
  <2> QED
    BY <2>2, <2>3, <2>4
<1> QED
  BY <1>1, <1>2, <1>3, <1>4, <1>5, <1>6, <1>7, <1>8, <1>9, <1>10, <1>11, <1>12
  DEF Next, LoginStep, OpenStep, vars, loginVars, sessionVars, historyVars, streamVars,
     TokenGiven, LoginFails, RequireDrained, ReadHeader, PunchSucceeds, Write,
     StartDrained, ModifyDrained, OfferTimesOut, GiveUpOpen, GiveUpRead, ProbeTimesOut,
     OpenSucceeds, OpenFails, Fails, Release, StopHeld, StopDrained, CloseBegins,
     CloseEnds, ConnectionLost

\* Nothing new is late when no more waits are over than before.
LEMMA LateKept ==
    ASSUME OffersLate, OffersOK, TaskOK, unanswered \subseteq unanswered',
           \A o \in asked' : o \in asked \/ ~(o < opens' \/ op' \notin {"require", "offer"}),
           \A i \in 1 .. Len(wire') : \/ wire'[i] = 0
                                      \/ wire'[i] \in asked
                                      \/ \E j \in 1 .. Len(wire) : wire[j] = wire'[i],
           \A o \in Numbers : o < opens' \/ op' \notin {"require", "offer"} => WaitOver(o),
           wire' \in Seq(Numbers)
    PROVE  OffersLate'
<1> USE DEF OffersLate, Overtaken, OffersOK, TaskOK, Numbers, Opens
<1>1. ASSUME NEW o \in asked', o < opens' \/ op' \notin {"require", "offer"}
      PROVE  \E u \in unanswered' : u <= o
  <2>1. o \in asked
    BY <1>1
  <2>2. o \in Numbers
    BY <2>1
  <2>3. WaitOver(o)
    BY <1>1, <2>2
  <2> QED
    BY <2>1, <2>3
<1>2. ASSUME NEW i \in 1 .. Len(wire'), wire'[i] # 0,
             wire'[i] < opens' \/ op' \notin {"require", "offer"}
      PROVE  \E u \in unanswered' : u <= wire'[i]
  <2>1. wire'[i] \in Numbers
    BY ElementOfSeq, LenProperties
  <2>2. WaitOver(wire'[i])
    BY <1>2, <2>1
  <2>3. CASE wire'[i] \in asked
    BY <2>2, <2>3
  <2>4. CASE \E j \in 1 .. Len(wire) : wire[j] = wire'[i]
    BY <1>2, <2>2, <2>4
  <2> QED
    BY <1>2, <2>3, <2>4
<1> QED
  BY <1>1, <1>2 DEF WaitOver

\* A wait that is given up is remembered, and comes before every later one.
LEMMA LateGivenUp ==
    ASSUME OffersLate, OffersOK, StreamOK, TaskOK, UNCHANGED <<wire, asked, opens>>,
           unanswered \subseteq unanswered', op \in Waiting => opens \in unanswered'
    PROVE  OffersLate'
<1> USE DEF OffersLate, Overtaken, WaitOver, OffersOK, StreamOK, TaskOK, Numbers, Opens, Waiting
<1>1. ASSUME NEW o \in Numbers, o <= opens, WaitOver(o) => Overtaken(o)
      PROVE  \E u \in unanswered' : u <= o
  <2>1. CASE WaitOver(o)
    BY <1>1, <2>1
  <2>2. CASE ~WaitOver(o)
    BY <1>1, <2>2
  <2> QED
    BY <2>1, <2>2
<1>2. \A o \in asked : \E u \in unanswered' : u <= o
  BY <1>1
<1>3. \A i \in 1 .. Len(wire) : wire[i] # 0 => \E u \in unanswered' : u <= wire[i]
  <2> SUFFICES ASSUME NEW i \in 1 .. Len(wire), wire[i] # 0
               PROVE  \E u \in unanswered' : u <= wire[i]
    OBVIOUS
  <2>1. wire[i] \in Numbers
    BY ElementOfSeq
  <2> QED
    BY <1>1, <2>1
<1> QED
  BY <1>2, <1>3

\* Whose offer is late, and whose wait it was.
LEMMA LateStep == IInv /\ [Next]_vars => OffersLate'
<1> SUFFICES ASSUME IInv, [Next]_vars PROVE OffersLate'
  OBVIOUS
<1> USE BoundsAssumption DEF IInv, TaskOK, Numbers, Opens, Connecting, Waiting, Started,
      loginVars, sessionVars, historyVars, streamVars
<1>1. CASE OpenBegins
    <2>1. /\ unanswered \subseteq unanswered' /\ UNCHANGED <<wire, asked>>
          /\ \A o \in Numbers : o < opens' \/ op' \notin {"require", "offer"} => WaitOver(o)
      BY <1>1 DEF OpenBegins, WaitOver
    <2> QED
      BY <2>1, LateKept DEF StreamOK
<1>2. CASE Connected
    <2>1. wire' = <<>> /\ UNCHANGED <<asked, unanswered>>
          /\ \A o \in Numbers : o < opens' \/ op' \notin {"require", "offer"} => WaitOver(o)
      BY <1>2 DEF Connected, Connect, WaitOver
    <2>2. wire' \in Seq(Numbers) /\ Len(wire') = 0
      BY <2>1, EmptySeq
    <2> QED
      BY <2>1, <2>2, LateKept
<1>3. CASE Reconnected
    <2>1. wire' = <<>> /\ UNCHANGED <<asked, unanswered>>
          /\ \A o \in Numbers : o < opens' \/ op' \notin {"require", "offer"} => WaitOver(o)
      BY <1>3 DEF Reconnected, Connect, WaitOver
    <2>2. wire' \in Seq(Numbers) /\ Len(wire') = 0
      BY <2>1, EmptySeq
    <2> QED
      BY <2>1, <2>2, LateKept
<1>4. CASE RedirectRead
    <2>1. wire # <<>> /\ wire' = Tail(wire) /\ UNCHANGED <<asked, unanswered>>
          /\ \A o \in Numbers : o < opens' \/ op' \notin {"require", "offer"} => WaitOver(o)
      BY <1>4 DEF RedirectRead, WaitOver
    <2>2. wire' \in Seq(Numbers)
          /\ \A i \in 1 .. Len(wire') : \E j \in 1 .. Len(wire) : wire[j] = wire'[i]
      BY <2>1, TailFacts
    <2> QED
      BY <2>1, <2>2, LateKept
<1>5. CASE SessionRead
    <2>1. wire # <<>> /\ wire' = Tail(wire) /\ UNCHANGED <<asked, unanswered>>
          /\ \A o \in Numbers : o < opens' \/ op' \notin {"require", "offer"} => WaitOver(o)
      BY <1>5 DEF SessionRead, WaitOver
    <2>2. wire' \in Seq(Numbers)
          /\ \A i \in 1 .. Len(wire') : \E j \in 1 .. Len(wire) : wire[j] = wire'[i]
      BY <2>1, TailFacts
    <2> QED
      BY <2>1, <2>2, LateKept
<1>6. CASE OtherRead
    <2>1. wire # <<>> /\ wire' = Tail(wire) /\ UNCHANGED <<asked, unanswered>>
          /\ \A o \in Numbers : o < opens' \/ op' \notin {"require", "offer"} => WaitOver(o)
      BY <1>6 DEF OtherRead, WaitOver
    <2>2. wire' \in Seq(Numbers)
          /\ \A i \in 1 .. Len(wire') : \E j \in 1 .. Len(wire) : wire[j] = wire'[i]
      BY <2>1, TailFacts
    <2> QED
      BY <2>1, <2>2, LateKept
<1>7. CASE SendRequire
    <2>1. /\ op' = "require" /\ asked' = asked \cup {opens}
          /\ UNCHANGED <<wire, opens, unanswered>>
      BY <1>7 DEF SendRequire
    <2>2. \A o \in Numbers : o < opens' \/ op' \notin {"require", "offer"} => WaitOver(o)
      BY <2>1 DEF WaitOver
    <2>3. \A o \in asked' : o \in asked \/ ~(o < opens' \/ op' \notin {"require", "offer"})
      BY <2>1
    <2> QED
      BY <2>1, <2>2, <2>3, LateKept DEF StreamOK
<1>8. CASE OfferRead
    <2>1. /\ op = "offer" /\ wire # <<>> /\ wire' = Tail(wire)
          /\ UNCHANGED <<opens, asked, unanswered>>
      BY <1>8 DEF OfferRead, ReadRest, StreamOK
    <2>2. CASE op' = op
      <3>1. wire' \in Seq(Numbers)
            /\ \A i \in 1 .. Len(wire') : \E j \in 1 .. Len(wire) : wire[j] = wire'[i]
        BY <2>1, TailFacts
      <3>2. \A o \in Numbers : o < opens' \/ op' \notin {"require", "offer"} => WaitOver(o)
        BY <2>1, <2>2 DEF WaitOver
      <3> QED
        BY <2>1, <3>1, <3>2, LateKept
    <2>3. CASE op' # op
      <3> DEFINE p == wire[1]
      <3>1. /\ p # 0 /\ p \in Numbers /\ Len(wire) \in Nat /\ 1 \in 1 .. Len(wire)
            /\ Len(wire') = Len(wire) - 1
            /\ \A i \in 1 .. Len(wire') : i + 1 \in 1 .. Len(wire) /\ wire'[i] = wire[i + 1]
        BY <1>8, <2>1, <2>3, TailFacts DEF OfferRead, IsOffer
      <3>2. p <= opens /\ (p < opens => Overtaken(p))
        BY <3>1 DEF OffersOK, OffersLate, WaitOver
      <3>3. ASSUME NEW o \in Numbers, o <= opens, o # p, o < opens => Overtaken(o)
            PROVE  \E u \in unanswered : u <= o
        <4>1. CASE o < opens
          BY <3>3, <4>1 DEF Overtaken
        <4>2. CASE o = opens
          <5>1. p < opens
            BY <3>1, <3>2, <3>3, <4>2
          <5>2. PICK u \in unanswered : u <= p
            BY <3>2, <5>1 DEF Overtaken
          <5>3. u \in Opens /\ u <= o
            BY <3>1, <4>2, <5>1, <5>2
          <5> QED
            BY <5>3
        <4> QED
          BY <3>3, <4>1, <4>2
      <3>4. \A o \in asked : \E u \in unanswered : u <= o
        BY <3>1, <3>3 DEF OffersOK, OffersLate, WaitOver
      <3>5. ASSUME NEW i \in 1 .. Len(wire'), wire'[i] # 0
            PROVE  \E u \in unanswered : u <= wire'[i]
        <4>1. /\ i + 1 \in 1 .. Len(wire) /\ wire'[i] = wire[i + 1] /\ i + 1 # 1
              /\ wire[i + 1] \in Numbers
          BY SMTT(30), <3>1, ElementOfSeq DEF StreamOK
        <4>2. wire[i + 1] # p /\ wire[i + 1] <= opens
          BY <3>1, <3>5, <4>1 DEF OffersOK
        <4>3. wire[i + 1] < opens => Overtaken(wire[i + 1])
          BY <3>5, <4>1 DEF OffersLate, WaitOver
        <4> QED
          BY <3>3, <4>1, <4>2, <4>3
      <3> QED
        BY <2>1, <3>4, <3>5 DEF OffersLate, Overtaken
    <2> QED
      BY <2>2, <2>3
<1>9. CASE ProbeRead
    <2>0. op = "probe" /\ op' \in {"probe", "idle"} /\ reading /\ UNCHANGED opens
      BY <1>9 DEF ProbeRead, ReadRest, OpenSucceeds
    <2>1. wire # <<>> /\ wire' = Tail(wire) /\ UNCHANGED <<asked, unanswered>>
          /\ \A o \in Numbers : o < opens' \/ op' \notin {"require", "offer"} => WaitOver(o)
      BY <1>9, <2>0 DEF ProbeRead, ReadRest, WaitOver, StreamOK
    <2>2. wire' \in Seq(Numbers)
          /\ \A i \in 1 .. Len(wire') : \E j \in 1 .. Len(wire) : wire[j] = wire'[i]
      BY <2>1, TailFacts
    <2> QED
      BY <2>1, <2>2, LateKept
<1>10. CASE OfferTimesOut
    <2>1. UNCHANGED <<wire, asked, opens>>
      BY <1>10 DEF OfferTimesOut, GiveUpOpen, GiveUpRead
    <2>2. unanswered \subseteq unanswered' /\ (op \in Waiting => opens \in unanswered')
      BY <1>10, GiveUpFacts DEF OfferTimesOut
    <2> QED
      BY <2>1, <2>2, LateGivenUp
<1>11. CASE OpenFails
    <2>1. UNCHANGED <<wire, asked, opens>>
      BY <1>11 DEF OpenFails, GiveUpOpen, GiveUpRead
    <2>2. unanswered \subseteq unanswered' /\ (op \in Waiting => opens \in unanswered')
      BY <1>11, GiveUpFacts DEF OpenFails, Fails
    <2> QED
      BY <2>1, <2>2, LateGivenUp
<1>12. CASE CloseBegins
    <2>1. UNCHANGED <<wire, asked, opens>>
      BY <1>12 DEF CloseBegins, GiveUpOpen, GiveUpRead
    <2>2. unanswered \subseteq unanswered' /\ (op \in Waiting => opens \in unanswered')
      BY <1>12, GiveUpFacts DEF CloseBegins
    <2> QED
      BY <2>1, <2>2, LateGivenUp
<1>13. CASE ServerSends
    <2>1. PICK p \in Numbers : Arrives(p) /\ p = 0 /\ UNCHANGED asked
      BY <1>13 DEF ServerSends, OffersOK
    <2>2. /\ Len(wire) < WireSize /\ wire' = Append(wire, p)
          /\ UNCHANGED <<op, opens, unanswered>> /\ asked' \subseteq asked
      BY <2>1 DEF Arrives
    <2>3. /\ wire' \in Seq(Numbers)
          /\ wire'[Len(wire) + 1] = p /\ Len(wire') = Len(wire) + 1 /\ Len(wire) \in Nat
          /\ \A i \in 1 .. Len(wire) : wire'[i] = wire[i]
      BY <2>2, AppendFacts
    <2>4. \A i \in 1 .. Len(wire') : i \in 1 .. Len(wire) \/ i = Len(wire) + 1
      BY <2>3
    <2>5. \A i \in 1 .. Len(wire') : \/ wire'[i] = 0 \/ wire'[i] \in asked
                                     \/ \E j \in 1 .. Len(wire) : wire[j] = wire'[i]
      BY <2>1, <2>3, <2>4
    <2>6. \A o \in Numbers : o < opens' \/ op' \notin {"require", "offer"} => WaitOver(o)
      BY <2>2 DEF WaitOver
    <2> QED
      BY <2>2, <2>3, <2>5, <2>6, LateKept
<1>14. CASE CameraOffers
    <2>1. PICK p \in Numbers : Arrives(p) /\ p \in asked /\ asked' = asked \ {p}
      BY <1>14 DEF CameraOffers, OffersOK
    <2>2. /\ Len(wire) < WireSize /\ wire' = Append(wire, p)
          /\ UNCHANGED <<op, opens, unanswered>> /\ asked' \subseteq asked
      BY <2>1 DEF Arrives
    <2>3. /\ wire' \in Seq(Numbers)
          /\ wire'[Len(wire) + 1] = p /\ Len(wire') = Len(wire) + 1 /\ Len(wire) \in Nat
          /\ \A i \in 1 .. Len(wire) : wire'[i] = wire[i]
      BY <2>2, AppendFacts
    <2>4. \A i \in 1 .. Len(wire') : i \in 1 .. Len(wire) \/ i = Len(wire) + 1
      BY <2>3
    <2>5. \A i \in 1 .. Len(wire') : \/ wire'[i] = 0 \/ wire'[i] \in asked
                                     \/ \E j \in 1 .. Len(wire) : wire[j] = wire'[i]
      BY <2>1, <2>3, <2>4
    <2>6. \A o \in Numbers : o < opens' \/ op' \notin {"require", "offer"} => WaitOver(o)
      BY <2>2 DEF WaitOver
    <2> QED
      BY <2>2, <2>3, <2>5, <2>6, LateKept
<1>15. CASE /\ UNCHANGED <<wire, asked, opens, unanswered>>
            /\ op' \in {"require", "offer"} \/ op \notin {"require", "offer"}
  <2>1. \A o \in Numbers : o < opens' \/ op' \notin {"require", "offer"} => WaitOver(o)
    BY <1>15 DEF WaitOver
  <2> QED
    BY <1>15, <2>1, LateKept DEF StreamOK
<1> QED
  BY <1>1, <1>2, <1>3, <1>4, <1>5, <1>6, <1>7, <1>8, <1>9, <1>10, <1>11, <1>12, <1>13,
     <1>14, <1>15
  DEF Next, LoginStep, OpenStep, vars, loginVars, sessionVars, historyVars, streamVars,
     TokenGiven, LoginFails, RequireDrained, ReadHeader, PunchSucceeds, Write,
     StartDrained, ModifyDrained, ProbeTimesOut, GiveUpRead, OpenSucceeds, Release,
     StopHeld, StopDrained, CloseEnds, ConnectionLost

\* The offer in hand is the open's own, or an overtaken one.
LEMMA MatchStep == IInv /\ [Next]_vars => OffersMatch'
<1> SUFFICES ASSUME IInv, [Next]_vars PROVE OffersMatch'
  OBVIOUS
<1> USE BoundsAssumption DEF IInv, TaskOK, OffersMatch, Numbers, Opens, Connecting,
      Waiting, Started, loginVars, sessionVars, historyVars, streamVars
<1>1. CASE OpenBegins
  BY <1>1 DEF OpenBegins
<1>2. CASE TokenGiven
  BY <1>2 DEF TokenGiven
<1>3. CASE Connected
  BY <1>3 DEF Connected, Connect
<1>4. CASE Reconnected
  BY <1>4 DEF Reconnected, Connect
<1>5. CASE RedirectRead
  BY <1>5 DEF RedirectRead, CloseLocal
<1>6. CASE SessionRead
  BY <1>6 DEF SessionRead
<1>7. CASE OtherRead
  BY <1>7 DEF OtherRead, CloseLocal
<1>8. CASE LoginFails
  BY <1>8 DEF LoginFails
<1>9. CASE SendRequire
  BY <1>9 DEF SendRequire, Write
<1>10. CASE RequireDrained
  BY <1>10 DEF RequireDrained
<1>11. CASE OfferRead
    <2>1. op = "offer" /\ wire # <<>> /\ UNCHANGED <<opens, unanswered>>
      BY <1>11 DEF OfferRead, ReadRest, StreamOK
    <2>2. \/ op' = "offer"
          \/ op' = "punch" /\ offer' = Head(wire) /\ Head(wire) # 0
      BY <1>11, <2>1 DEF OfferRead, IsOffer
    <2>3. Head(wire) = wire[1] /\ 1 \in 1 .. Len(wire) /\ wire[1] \in Numbers
      BY <2>1, HeadFacts
    <2>4. wire[1] <= opens /\ (wire[1] # 0 /\ wire[1] < opens => Overtaken(wire[1]))
      BY <2>3 DEF OffersOK, OffersLate, WaitOver
    <2> QED
      BY <2>1, <2>2, <2>3, <2>4 DEF Overtaken
<1>12. CASE ReadHeader
  BY <1>12 DEF ReadHeader
<1>13. CASE PunchSucceeds
  BY <1>13 DEF PunchSucceeds, Write
<1>14. CASE StartDrained
  BY <1>14 DEF StartDrained, Write
<1>15. CASE ModifyDrained
  BY <1>15 DEF ModifyDrained
<1>16. CASE ProbeRead
  BY <1>16 DEF ProbeRead, ReadRest, OpenSucceeds
<1>17. CASE OfferTimesOut
  BY <1>17 DEF OfferTimesOut, GiveUpOpen, GiveUpRead
<1>18. CASE ProbeTimesOut
  BY <1>18 DEF ProbeTimesOut, GiveUpRead, OpenSucceeds
<1>19. CASE OpenFails
  BY <1>19 DEF OpenFails, Fails, GiveUpOpen, GiveUpRead
<1>20. CASE Release
  BY <1>20 DEF Release, StopHeld, Write
<1>21. CASE StopDrained
  BY <1>21 DEF StopDrained
<1>22. CASE CloseBegins
    <2>1. op' = "idle"
      BY <1>22, GiveUpFacts DEF CloseBegins
    <2> QED
      BY <2>1
<1>23. CASE CloseEnds
  BY <1>23 DEF CloseEnds
<1>24. CASE ServerSends
  BY <1>24 DEF ServerSends, Arrives
<1>25. CASE CameraOffers
  BY <1>25 DEF CameraOffers, Arrives
<1>26. CASE ConnectionLost
  BY <1>26 DEF ConnectionLost
<1>27. CASE UNCHANGED vars
  BY <1>27 DEF vars, loginVars, sessionVars, historyVars, streamVars
<1> QED
  BY <1>1, <1>2, <1>3, <1>4, <1>5, <1>6, <1>7, <1>8, <1>9, <1>10, <1>11, <1>12, <1>13,
     <1>14, <1>15, <1>16, <1>17, <1>18, <1>19, <1>20, <1>21, <1>22, <1>23, <1>24, <1>25,
     <1>26, <1>27
  DEF Next, LoginStep, OpenStep

\* Commands name opens.
LEMMA LogStep == IInv /\ [Next]_vars => LogOK'
<1> SUFFICES ASSUME IInv, [Next]_vars PROVE LogOK'
  OBVIOUS
<1> USE BoundsAssumption DEF IInv, TaskOK, LogOK, Numbers, Opens, Connecting, Waiting,
      Started, loginVars, sessionVars, historyVars, streamVars
<1>1. CASE SendRequire
    <2>1. Command("require", opens) \in Commands /\ Write(<<Command("require", opens)>>)
      BY <1>1 DEF SendRequire, Command, Commands
    <2> QED
      BY <2>1, WriteFacts
<1>2. CASE PunchSucceeds
    <2>1. Command("start", opens) \in Commands /\ Write(<<Command("start", opens)>>)
      BY <1>2 DEF PunchSucceeds, Command, Commands
    <2> QED
      BY <2>1, WriteFacts
<1>3. CASE StartDrained
    <2>1. Command("modify", opens) \in Commands /\ Write(<<Command("modify", opens)>>)
      BY <1>3 DEF StartDrained, Command, Commands
    <2> QED
      BY <2>1, WriteFacts
<1>4. CASE Release
    <2>1. CASE held = 0
      BY <1>4, <2>1 DEF Release, StopHeld
    <2>2. CASE held # 0
      <3>1. Command("stop", held) \in Commands /\ Write(<<Command("stop", held)>>)
        BY <1>4, <2>2 DEF Release, StopHeld, Command, Commands
      <3> QED
        BY <3>1, WriteFacts
    <2> QED
      BY <2>1, <2>2
<1>5. CASE CloseBegins
    <2>1. CASE held = 0
      BY <1>5, <2>1 DEF CloseBegins, StopHeld
    <2>2. CASE held # 0
      <3>1. Command("stop", held) \in Commands /\ Write(<<Command("stop", held)>>)
        BY <1>5, <2>2 DEF CloseBegins, StopHeld, Command, Commands
      <3> QED
        BY <3>1, WriteFacts
    <2> QED
      BY <2>1, <2>2
<1>6. CASE UNCHANGED <<log>>
  BY <1>6
<1> QED
  BY <1>1, <1>2, <1>3, <1>4, <1>5, <1>6
  DEF Next, LoginStep, OpenStep, vars, loginVars, sessionVars, historyVars, streamVars,
     OpenBegins, TokenGiven, Connected, Connect, Reconnected, RedirectRead, CloseLocal,
     SessionRead, OtherRead, LoginFails, RequireDrained, OfferRead, ReadRest, IsOffer,
     ReadHeader, ModifyDrained, ProbeRead, OpenSucceeds, OfferTimesOut, GiveUpOpen,
     GiveUpRead, ProbeTimesOut, OpenFails, Fails, StopDrained, CloseEnds, ServerSends,
     Arrives, CameraOffers, ConnectionLost

\* A command more leaves the starts before it accounted for.
LEMMA StartsKept ==
    ASSUME NEW c \in Commands, Logged(c), StartsAccounted,
           \A o \in Opens : StillOn(o) => StillOn(o)' \/ c = Command("stop", o),
           c.verb = "start" => c.open = opens' /\ op' \in Started
    PROVE  StartsAccounted'
<1> USE DEF Logged
<1> SUFFICES ASSUME NEW j \in 1 .. Len(log'), log'[j].verb = "start"
             PROVE  \/ log'[j].open = opens' /\ op' \in Started
                    \/ log'[j].open = held'
                    \/ log'[j].open \in unstopped'
                    \/ Stopped(log', j)
  BY DEF StartsAccounted, StillOn
<1>1. CASE j = Len(log) + 1
  BY <1>1
<1>2. CASE j \in 1 .. Len(log)
  <2>1. log'[j] = log[j] /\ log[j].open \in Opens /\ Len(log) + 1 \in j + 1 .. Len(log')
    BY <1>2 DEF Commands
  <2>2. CASE Stopped(log, j)
    <3>1. PICK k \in j + 1 .. Len(log) : log[k] = Command("stop", log[j].open)
      BY <2>2 DEF Stopped
    <3>2. k \in j + 1 .. Len(log') /\ log'[k] = log[k]
      BY <1>2, <3>1
    <3> QED
      BY <2>1, <3>1, <3>2 DEF Stopped
  <2>3. CASE c = Command("stop", log[j].open)
    BY <2>1, <2>3 DEF Stopped
  <2> QED
    BY <1>2, <2>1, <2>2, <2>3 DEF StartsAccounted, StillOn
<1> QED
  BY <1>1, <1>2

\* Without one, they are accounted for as long as no session is let go.
LEMMA StartsFramed ==
    ASSUME StartsAccounted, LogOK, UNCHANGED log,
           \A o \in Opens : StillOn(o) => StillOn(o)'
    PROVE  StartsAccounted'
<1> SUFFICES ASSUME NEW j \in 1 .. Len(log), log[j].verb = "start"
             PROVE  \/ log[j].open = opens' /\ op' \in Started
                    \/ log[j].open = held'
                    \/ log[j].open \in unstopped'
                    \/ Stopped(log, j)
  BY DEF StartsAccounted, StillOn
<1>1. log[j].open \in Opens
  <2>1. log[j] \in [verb : {"require", "start", "modify", "stop"}, open : Opens]
    BY ElementOfSeq DEF LogOK
  <2> QED
    BY <2>1
<1> QED
  BY <1>1 DEF StartsAccounted, StillOn

\* Why a started video has no stop yet.
LEMMA StartsStep == IInv /\ [Next]_vars => StartsAccounted'
<1> SUFFICES ASSUME IInv, [Next]_vars PROVE StartsAccounted'
  OBVIOUS
<1> USE BoundsAssumption DEF IInv, TaskOK, Numbers, Opens, Connecting, Waiting, Started,
      StillOn, loginVars, sessionVars, historyVars, streamVars
<1>1. CASE SendRequire
    <2>1. Command("require", opens) \in Commands /\ Write(<<Command("require", opens)>>)
      BY <1>1 DEF SendRequire, Command, Commands
    <2>2. Logged(Command("require", opens))
      BY <2>1, WriteFacts
    <2>3. UNCHANGED <<opens, held, unstopped>> /\ op = "ready"
      BY <1>1 DEF SendRequire
    <2> QED
      BY <2>1, <2>2, <2>3, StartsKept DEF Command
<1>2. CASE PunchSucceeds
    <2>1. Command("start", opens) \in Commands /\ Write(<<Command("start", opens)>>)
      BY <1>2 DEF PunchSucceeds, Command, Commands
    <2>2. Logged(Command("start", opens))
      BY <2>1, WriteFacts
    <2>3. UNCHANGED <<opens, held, unstopped>> /\ op = "punch" /\ op' = "start"
      BY <1>2 DEF PunchSucceeds
    <2> QED
      BY <2>1, <2>2, <2>3, StartsKept DEF Command
<1>3. CASE StartDrained
    <2>1. Command("modify", opens) \in Commands /\ Write(<<Command("modify", opens)>>)
      BY <1>3 DEF StartDrained, Command, Commands
    <2>2. Logged(Command("modify", opens))
      BY <2>1, WriteFacts
    <2>3. UNCHANGED <<opens, held, unstopped>> /\ op' = "modify"
      BY <1>3 DEF StartDrained
    <2> QED
      BY <2>1, <2>2, <2>3, StartsKept DEF Command
<1>4. CASE ProbeRead
    <2>1. UNCHANGED log /\ \A o \in Opens : StillOn(o) => StillOn(o)'
      BY <1>4 DEF ProbeRead, ReadRest, OpenSucceeds
    <2> QED
      BY <2>1, StartsFramed
<1>5. CASE OfferTimesOut
    <2>0. UNCHANGED <<log, opens, held>> /\ op' = "idle"
          /\ unstopped' = IF op \in Started THEN unstopped \cup {opens} ELSE unstopped
      BY <1>5 DEF OfferTimesOut, GiveUpOpen, GiveUpRead
    <2>1. \A o \in Opens : StillOn(o) => StillOn(o)'
      BY <2>0
    <2> QED
      BY <2>0, <2>1, StartsFramed
<1>6. CASE ProbeTimesOut
    <2>1. UNCHANGED log /\ \A o \in Opens : StillOn(o) => StillOn(o)'
      BY <1>6 DEF ProbeTimesOut, GiveUpRead, OpenSucceeds
    <2> QED
      BY <2>1, StartsFramed
<1>7. CASE OpenFails
    <2>0. UNCHANGED <<log, opens, held>> /\ op' = "idle"
          /\ unstopped' = IF op \in Started THEN unstopped \cup {opens} ELSE unstopped
      BY <1>7 DEF OpenFails, GiveUpOpen, GiveUpRead
    <2>1. \A o \in Opens : StillOn(o) => StillOn(o)'
      BY <2>0
    <2> QED
      BY <2>0, <2>1, StartsFramed
<1>8. CASE Release
    <2>1. /\ UNCHANGED opens /\ held' = 0 /\ unstopped \subseteq unstopped'
          /\ op \in Started => op' = op \/ opens \in unstopped'
      BY <1>8, HeldFacts DEF Release
    <2>2. CASE held = 0
      <3>1. UNCHANGED log
        BY <1>8, <2>2 DEF Release, StopHeld
      <3> QED
        BY <2>1, <2>2, <3>1, StartsFramed
    <2>3. CASE held # 0
      <3>1. Command("stop", held) \in Commands /\ Write(<<Command("stop", held)>>)
        BY <1>8, <2>3 DEF Release, StopHeld, Command, Commands
      <3>2. Logged(Command("stop", held))
        BY <3>1, WriteFacts
      <3> QED
        BY <2>1, <3>1, <3>2, StartsKept DEF Command
    <2> QED
      BY <2>2, <2>3
<1>9. CASE CloseBegins
    <2>1. /\ UNCHANGED opens /\ held' = 0 /\ unstopped \subseteq unstopped'
          /\ op \in Started => op' = op \/ opens \in unstopped'
      BY <1>9, HeldFacts, GiveUpFacts DEF CloseBegins
    <2>2. CASE held = 0
      <3>1. UNCHANGED log
        BY <1>9, <2>2 DEF CloseBegins, StopHeld
      <3> QED
        BY <2>1, <2>2, <3>1, StartsFramed
    <2>3. CASE held # 0
      <3>1. Command("stop", held) \in Commands /\ Write(<<Command("stop", held)>>)
        BY <1>9, <2>3 DEF CloseBegins, StopHeld, Command, Commands
      <3>2. Logged(Command("stop", held))
        BY <3>1, WriteFacts
      <3> QED
        BY <2>1, <3>1, <3>2, StartsKept DEF Command
    <2> QED
      BY <2>2, <2>3
<1>10. CASE /\ UNCHANGED <<log, held, unstopped>>
            /\ op \in Started => op' \in Started /\ UNCHANGED opens
  BY <1>10, StartsFramed
<1> QED
  BY <1>1, <1>2, <1>3, <1>4, <1>5, <1>6, <1>7, <1>8, <1>9, <1>10
  DEF Next, LoginStep, OpenStep, vars, loginVars, sessionVars, historyVars, streamVars,
     OpenBegins, TokenGiven, Connected, Connect, Reconnected, RedirectRead, CloseLocal,
     SessionRead, OtherRead, LoginFails, RequireDrained, OfferRead, ReadRest, IsOffer,
     ReadHeader, ModifyDrained, StopDrained, CloseEnds, ServerSends, Arrives, CameraOffers,
     ConnectionLost

\* Only require-video-send asks that what was started before it was stopped.
LEMMA StreamsKept ==
    ASSUME StreamsStopped, unstopped \subseteq unstopped', NEW c \in Commands, Logged(c),
           c.verb = "require" =>
               \A j \in 1 .. Len(log) : log[j].verb = "start" =>
                   \/ \E k \in j + 1 .. Len(log) : log[k] = Command("stop", log[j].open)
                   \/ log[j].open \in unstopped
    PROVE  StreamsStopped'
<1> USE DEF Logged
<1> SUFFICES ASSUME NEW i \in DOMAIN log', log'[i].verb = "require",
                    NEW j \in 1 .. i - 1, log'[j].verb = "start"
             PROVE  \/ \E k \in j + 1 .. i - 1 : log'[k] = Command("stop", log'[j].open)
                    \/ log'[j].open \in unstopped'
  BY DEF StreamsStopped
<1>1. /\ i \in 1 .. Len(log) + 1 /\ j \in 1 .. Len(log) /\ log'[j] = log[j]
      /\ \A k \in j + 1 .. i - 1 : log'[k] = log[k]
  OBVIOUS
<1>2. CASE i = Len(log) + 1
  <2>1. /\ \/ \E k \in j + 1 .. Len(log) : log[k] = Command("stop", log[j].open)
           \/ log[j].open \in unstopped
        /\ i - 1 = Len(log)
    BY <1>1, <1>2
  <2> QED
    BY <1>1, <2>1
<1>3. CASE i \in 1 .. Len(log)
  <2>1. log'[i] = log[i] /\ i \in DOMAIN log
    BY <1>3
  <2> QED
    BY <1>1, <2>1 DEF StreamsStopped
<1> QED
  BY <1>1, <1>2, <1>3

LEMMA StreamsFramed ==
    ASSUME StreamsStopped, unstopped \subseteq unstopped', UNCHANGED log
    PROVE  StreamsStopped'
BY DEF StreamsStopped

\* Video is required when what was started has its stop, or its open failed.
LEMMA StreamsStep == IInv /\ [Next]_vars => StreamsStopped'
<1> SUFFICES ASSUME IInv, [Next]_vars PROVE StreamsStopped'
  OBVIOUS
<1> USE BoundsAssumption DEF IInv, TaskOK, Numbers, Opens, Connecting, Waiting, Started,
      loginVars, sessionVars, historyVars, streamVars
<1>1. CASE SendRequire
    <2>1. /\ Command("require", opens) \in Commands /\ Write(<<Command("require", opens)>>)
          /\ UNCHANGED unstopped /\ op = "ready" /\ held = 0
      BY <1>1 DEF SendRequire, Command, Commands
    <2>2. Logged(Command("require", opens))
      BY <2>1, WriteFacts
    <2>3. ASSUME NEW j \in 1 .. Len(log), log[j].verb = "start"
          PROVE  \/ \E k \in j + 1 .. Len(log) : log[k] = Command("stop", log[j].open)
                 \/ log[j].open \in unstopped
      <3>1. log[j] \in Commands
        BY <2>2 DEF Logged
      <3>2. log[j].open # 0
        BY <3>1 DEF Commands
      <3> QED
        BY <2>1, <2>3, <3>2 DEF StartsAccounted, StillOn, Stopped
    <2> QED
      BY <2>1, <2>2, <2>3, StreamsKept
<1>2. CASE PunchSucceeds
    <2>1. Command("start", opens) \in Commands /\ Write(<<Command("start", opens)>>) /\ UNCHANGED unstopped
      BY <1>2 DEF PunchSucceeds, Command, Commands
    <2>2. Logged(Command("start", opens))
      BY <2>1, WriteFacts
    <2> QED
      BY <2>1, <2>2, StreamsKept DEF Command
<1>3. CASE StartDrained
    <2>1. Command("modify", opens) \in Commands /\ Write(<<Command("modify", opens)>>) /\ UNCHANGED unstopped
      BY <1>3 DEF StartDrained, Command, Commands
    <2>2. Logged(Command("modify", opens))
      BY <2>1, WriteFacts
    <2> QED
      BY <2>1, <2>2, StreamsKept DEF Command
<1>4. CASE Release
    <2>1. unstopped \subseteq unstopped'
      BY <1>4 DEF Release
    <2>2. CASE held = 0
      <3>1. UNCHANGED log
        BY <1>4, <2>2 DEF Release, StopHeld
      <3> QED
        BY <2>1, <3>1, StreamsFramed
    <2>3. CASE held # 0
      <3>1. Command("stop", held) \in Commands /\ Write(<<Command("stop", held)>>)
        BY <1>4, <2>3 DEF Release, StopHeld, Command, Commands
      <3>2. Logged(Command("stop", held))
        BY <3>1, WriteFacts
      <3> QED
        BY <2>1, <3>1, <3>2, StreamsKept DEF Command
    <2> QED
      BY <2>2, <2>3
<1>5. CASE CloseBegins
    <2>1. unstopped \subseteq unstopped'
      BY <1>5, GiveUpFacts DEF CloseBegins
    <2>2. CASE held = 0
      <3>1. UNCHANGED log
        BY <1>5, <2>2 DEF CloseBegins, StopHeld
      <3> QED
        BY <2>1, <3>1, StreamsFramed
    <2>3. CASE held # 0
      <3>1. Command("stop", held) \in Commands /\ Write(<<Command("stop", held)>>)
        BY <1>5, <2>3 DEF CloseBegins, StopHeld, Command, Commands
      <3>2. Logged(Command("stop", held))
        BY <3>1, WriteFacts
      <3> QED
        BY <2>1, <3>1, <3>2, StreamsKept DEF Command
    <2> QED
      BY <2>2, <2>3
<1>6. CASE UNCHANGED log /\ unstopped \subseteq unstopped'
  BY <1>6, StreamsFramed
<1> QED
  BY <1>1, <1>2, <1>3, <1>4, <1>5, <1>6
  DEF Next, LoginStep, OpenStep, vars, loginVars, sessionVars, historyVars, streamVars,
     OpenBegins, TokenGiven, Connected, Connect, Reconnected, RedirectRead, CloseLocal,
     SessionRead, OtherRead, LoginFails, RequireDrained, OfferRead, ReadRest, IsOffer,
     ReadHeader, ModifyDrained, ProbeRead, OpenSucceeds, OfferTimesOut, GiveUpOpen,
     GiveUpRead, ProbeTimesOut, OpenFails, Fails, StopDrained, CloseEnds, ServerSends,
     Arrives, CameraOffers, ConnectionLost

-----------------------------------------------------------------------------
(* Theorems.                                                               *)

\* The invariant of the channel: the task, its connections, the stream, the
\* offers on their way and the commands written, together.
THEOREM Invariant == Spec => []IInv
<1>1. IInv /\ [Next]_vars => IInv'
  BY FlagsStep, TaskStep, ConnectionsStep, StreamStep, OffersStep, LateStep, MatchStep,
     AlignedStep, LogStep, StartsStep, StreamsStep DEF IInv
<1> QED
  BY InitIInv, <1>1, PTL DEF Spec

\* Consistent: the types, and a stream that is read from a packet's start unless
\* a read was given up between its awaits (_read_packet).
THEOREM StaysConsistent == Spec => []Consistent
<1>1. IInv => TypeOK
  <2> SUFFICES ASSUME IInv PROVE TypeOK
    OBVIOUS
  <2> USE DEF IInv
  <2>1. 0 .. made \subseteq Nat /\ made \in Connections
    BY BoundsAssumption DEF TaskOK, ConnectionsOK, Numbers, Connections
  <2>2. camera \in BOOLEAN /\ alive \in BOOLEAN /\ reading \in BOOLEAN /\ interrupted \in BOOLEAN
    BY DEF FlagsOK
  <2>3. /\ op \in {"idle", "punch"} \cup Connecting \cup Waiting \cup Started
        /\ closing \in {"no", "begun", "done"} /\ reads \in 0 .. LoginReads + ProbeReads
        /\ opens \in Numbers /\ held \in Numbers
        /\ draining \subseteq Opens /\ unanswered \subseteq Opens /\ unstopped \subseteq Opens
    BY DEF TaskOK
  <2>4. /\ conn \in 0 .. made /\ local \in 0 .. made /\ opened \subseteq 1 .. made
        /\ local # 0 => op \in {"redirect", "session"}
    BY DEF ConnectionsOK
  <2>5. /\ wire \in Seq(Numbers) /\ Len(wire) <= WireSize /\ head \in {"header", "rest"}
        /\ asked \subseteq Opens /\ offer \in Numbers
    BY DEF StreamOK, OffersOK
  <2>6. log \in Seq([verb : {"require", "start", "modify", "stop"}, open : Opens])
    BY DEF LogOK
  <2> QED
    BY <2>1, <2>2, <2>3, <2>4, <2>5, <2>6 DEF TypeOK
<1>2. IInv => Consistent
  BY <1>1 DEF IInv, Consistent
<1> QED
  BY Invariant, <1>2, PTL

\* OffersMatch: the wrong offer is taken only after a wait was given up
\* (_wait_for compares no correlation).
THEOREM OffersAlwaysMatch == Spec => []OffersMatch
BY Invariant, PTL DEF IInv

\* StreamsStopped: what async_start_video started is stopped before the next
\* video is required, unless its open failed.
THEOREM StreamsAreStopped == Spec => []StreamsStopped
BY Invariant, PTL DEF IInv

\* How a connection that is open after a step was owned before it.
Owned(c) ==
    \/ c \notin {conn, local}
    \/ c = local /\ op \in {"redirect", "session"} /\ op' = "idle"

LEMMA OwnedStep == IInv /\ [Next]_vars => \A c \in opened' \ {conn', local'} : Owned(c)
<1> SUFFICES ASSUME IInv, [Next]_vars, NEW c \in opened' \ {conn', local'} PROVE Owned(c)
  OBVIOUS
<1> USE BoundsAssumption DEF Owned, IInv, TaskOK, ConnectionsOK, Numbers, Opens,
      Connecting, Waiting, Started, loginVars, sessionVars, historyVars, streamVars
<1>1. CASE OpenBegins
  BY <1>1 DEF OpenBegins
<1>2. CASE Connected
  BY <1>2 DEF Connected, Connect
<1>3. CASE Reconnected
  BY <1>3 DEF Reconnected, Connect
<1>4. CASE RedirectRead
  BY <1>4 DEF RedirectRead, CloseLocal
<1>5. CASE SessionRead
  BY <1>5 DEF SessionRead
<1>6. CASE OtherRead
  BY <1>6 DEF OtherRead, CloseLocal
<1>7. CASE LoginFails
  BY <1>7 DEF LoginFails
<1>8. CASE CloseBegins
    <2>1. op' = "idle" /\ UNCHANGED <<conn, opened>>
      BY <1>8, GiveUpFacts DEF CloseBegins
    <2> QED
      BY <2>1
<1>9. CASE CloseEnds
  BY <1>9 DEF CloseEnds
<1>10. CASE UNCHANGED <<conn, local, opened>>
  BY <1>10
<1> QED
  BY <1>1, <1>2, <1>3, <1>4, <1>5, <1>6, <1>7, <1>8, <1>9, <1>10
  DEF Next, LoginStep, OpenStep, vars, loginVars, sessionVars, historyVars, streamVars,
     TokenGiven, SendRequire, Write, RequireDrained, OfferRead, ReadRest, IsOffer,
     ReadHeader, PunchSucceeds, StartDrained, ModifyDrained, ProbeRead, OpenSucceeds,
     OfferTimesOut, GiveUpOpen, GiveUpRead, ProbeTimesOut, OpenFails, Fails, Release,
     StopHeld, StopDrained, ServerSends, Arrives, CameraOffers, ConnectionLost


\* ConnectionsOwned: only a login that ends by an error or a cancellation leaves
\* a connection without an owner (async_login).
THEOREM ConnectionsAreOwned == Spec => ConnectionsOwned
<1>1. IInv /\ [Next]_vars
      => \A c \in opened' \ {conn', local'} :
             \/ c \notin {conn, local}
             \/ c = local /\ op \in {"redirect", "session"} /\ op' = "idle"
  BY OwnedStep DEF Owned
<1> QED
  BY Invariant, <1>1, PTL DEF Spec, ConnectionsOwned

-----------------------------------------------------------------------------
(* Which device the login selects (KeypadSelection), for any devices and   *)
(* listings of any length.  The theorems that compare a selection with     *)
(* that from another listing rest on lemmas that say the outcome of each   *)
(* test is the same.                                                       *)

\* A test's outcome, and so the selection, is a device of the listing.
LEMMA SingleFacts ==
    ASSUME NEW l \in Seq(Devices), NEW passing
    PROVE  /\ Single(l, passing) \subseteq Devices
           /\ \A d \in Single(l, passing) :
                 d \in passing /\ \E i \in DOMAIN l : l[i] = d
    BY DEF Single

\* What Decide returns: the outcome of the first test that has one.
LEMMA DecideFacts ==
    ASSUME NEW a \in SUBSET Devices, NEW b \in SUBSET Devices, NEW c \in SUBSET Devices
    PROVE  LET d == Decide(<<a, b, c>>) IN
           /\ a # {} => d \in a
           /\ a = {} /\ b # {} => d \in b
           /\ a = {} /\ b = {} /\ c # {} => d \in c
           /\ a = {} /\ b = {} /\ c = {} => d = NoDevice
<1> DEFINE outcomes == <<a, b, c>>
           decisive == {k \in DOMAIN outcomes : outcomes[k] # {}}
<1>1. DOMAIN outcomes = 1 .. 3 /\ outcomes[1] = a /\ outcomes[2] = b /\ outcomes[3] = c
    OBVIOUS
<1>2. a # {} => Min(decisive) = 1
    BY <1>1 DEF Min
<1>3. a = {} /\ b # {} => Min(decisive) = 2
    BY <1>1 DEF Min
<1>4. a = {} /\ b = {} /\ c # {} => Min(decisive) = 3
    BY <1>1 DEF Min
<1>5. a = {} /\ b = {} /\ c = {} => decisive = {}
    BY <1>1
<1>6. a # {} \/ b # {} \/ c # {} => decisive # {}
    BY <1>1
<1>7. Decide(outcomes) = IF decisive = {} THEN NoDevice
                         ELSE CHOOSE d \in Devices : d \in outcomes[Min(decisive)]
    BY DEF Decide
<1> HIDE DEF outcomes, decisive
<1>8. Decide(outcomes) = Decide(<<a, b, c>>)
    BY DEF outcomes
<1> QED
    BY <1>1, <1>2, <1>3, <1>4, <1>5, <1>6, <1>7, <1>8

\* The selection, by its three tests in their order.
LEMMA SelectFacts ==
    ASSUME NEW l \in Seq(Devices)
    PROVE  LET d == Select(l) IN
           /\ d = NoDevice \/ d \in Single(l, Expected)
                \/ d \in Single(l, Aliased) \/ d \in Single(l, Modelled)
           /\ Single(l, Expected) # {} => d \in Single(l, Expected)
    BY SingleFacts, DecideFacts DEF Select

\* Without a candidate that does not pass a test, its outcome is the same.
LEMMA BystanderNotSingle ==
    ASSUME NEW l \in Seq(Devices), NEW passing,
           NEW i \in DOMAIN l, l[i] \notin passing
    PROVE  Single(Without(l, i), passing) = Single(l, passing)
<1> DEFINE w == Without(l, i)
           moved(k) == IF k < i THEN k ELSE k - 1
           back(k) == IF k < i THEN k ELSE k + 1
<1>n. Len(l) \in Nat /\ DOMAIN l = 1 .. Len(l) /\ i \in 1 .. Len(l)
    OBVIOUS
<1>d. DOMAIN w = 1 .. Len(l) - 1 /\ \A k \in DOMAIN w : w[k] = l[back(k)]
    BY <1>n DEF Without
<1>b. \A k \in DOMAIN w :
         back(k) \in DOMAIN l /\ back(k) # i /\ moved(back(k)) = k
    BY <1>n, <1>d
<1>m. \A k \in DOMAIN l \ {i} : moved(k) \in DOMAIN w /\ back(moved(k)) = k
    BY <1>n, <1>d
<1>1. \A k \in DOMAIN l \ {i} : w[moved(k)] = l[k]
    BY <1>d, <1>m
<1> HIDE DEF w, moved, back
<1>2. ASSUME NEW d \in Single(w, passing) PROVE d \in Single(l, passing)
  <2>1. PICK k \in DOMAIN w :
            d = w[k] /\ \A j \in DOMAIN w : w[j] \in passing <=> j = k
    BY <1>2 DEF Single
  <2>2. ASSUME NEW j \in DOMAIN l PROVE l[j] \in passing <=> j = back(k)
    <3>1. CASE j = i
        BY <3>1, <1>b, <2>1
    <3>2. CASE j # i
        BY <3>2, <1>b, <1>m, <1>1, <2>1
    <3> QED BY <3>1, <3>2
  <2> QED
    BY <1>d, <1>b, <2>1, <2>2 DEF Single
<1>3. ASSUME NEW d \in Single(l, passing) PROVE d \in Single(w, passing)
  <2>1. PICK k \in DOMAIN l :
            d = l[k] /\ \A j \in DOMAIN l : l[j] \in passing <=> j = k
    BY <1>3 DEF Single
  <2>2. k # i
    BY <2>1
  <2>3. ASSUME NEW j \in DOMAIN w PROVE w[j] \in passing <=> j = moved(k)
    BY <1>d, <1>b, <1>m, <2>1, <2>2
  <2> QED
    BY <1>m, <1>1, <2>1, <2>2, <2>3 DEF Single
<1> QED
    BY <1>2, <1>3 DEF w

\* In another order the outcome of a test is the same.
LEMMA SingleOfReordered ==
    ASSUME NEW l \in Seq(Devices), NEW passing,
           NEW p \in [DOMAIN l -> DOMAIN l], IsInjective(p)
    PROVE  Single([i \in DOMAIN l |-> l[p[i]]], passing) = Single(l, passing)
<1> DEFINE r == [i \in DOMAIN l |-> l[p[i]]]
<1>1. IsFiniteSet(DOMAIN l)
    BY FS_Interval
<1>2. p \in Injection(DOMAIN l, DOMAIN l)
    BY DEF Injection
<1>3. p \in Surjection(DOMAIN l, DOMAIN l)
    BY <1>1, <1>2, FS_Injection
<1>4. \A t \in DOMAIN l : \E s \in DOMAIN l : p[s] = t
    BY <1>3 DEF Surjection
<1>5. \A s, t \in DOMAIN l : p[s] = p[t] => s = t
    BY DEF IsInjective
<1>6. DOMAIN r = DOMAIN l /\ \A i \in DOMAIN l : r[i] = l[p[i]] /\ p[i] \in DOMAIN l
    OBVIOUS
<1> HIDE DEF r
<1>7. ASSUME NEW d \in Single(r, passing) PROVE d \in Single(l, passing)
  <2>1. PICK k \in DOMAIN r :
            d = r[k] /\ \A j \in DOMAIN r : r[j] \in passing <=> j = k
    BY <1>7 DEF Single
  <2>2. ASSUME NEW t \in DOMAIN l PROVE l[t] \in passing <=> t = p[k]
    <3>1. PICK s \in DOMAIN l : p[s] = t
        BY <1>4
    <3>2. r[s] = l[t] /\ s \in DOMAIN r
        BY <1>6, <3>1
    <3>3. l[t] \in passing <=> s = k
        BY <2>1, <3>2
    <3> QED
        BY <1>5, <1>6, <2>1, <3>1, <3>3
  <2> QED
    BY <1>6, <2>1, <2>2 DEF Single
<1>8. ASSUME NEW d \in Single(l, passing) PROVE d \in Single(r, passing)
  <2>1. PICK k \in DOMAIN l :
            d = l[k] /\ \A j \in DOMAIN l : l[j] \in passing <=> j = k
    BY <1>8 DEF Single
  <2>2. PICK s \in DOMAIN l : p[s] = k
    BY <1>4
  <2>3. ASSUME NEW j \in DOMAIN r PROVE r[j] \in passing <=> j = s
    BY <1>5, <1>6, <2>1, <2>2
  <2> QED
    BY <1>6, <2>1, <2>2, <2>3 DEF Single
<1> QED
    BY <1>7, <1>8 DEF r

\* The manager's camera is what the entity's device selects from the listing.
SelectionIInv ==
    /\ SelectionTypeOK
    /\ selected # NoDevice => entity # NoDevice /\ selected = Select(listing)

LEMMA SelectionInitIInv == SelectionInit => SelectionIInv
    BY DeviceAssumption DEF SelectionInit, SelectionIInv, SelectionTypeOK

\* The tests look at the traits, which never change, and at the entity.
LEMMA SelectUnchanged ==
    ASSUME UNCHANGED <<traits, entity>>
    PROVE  \A l : Select(l)' = Select(l)
    BY DEF Select, Decide, Single, Expected, Aliased, Modelled

LEMMA SelectionNextIInv == SelectionIInv /\ [SelectionNext]_selectionVars => SelectionIInv'
<1> SUFFICES ASSUME SelectionIInv, [SelectionNext]_selectionVars PROVE SelectionIInv'
    OBVIOUS
<1> USE DeviceAssumption DEF SelectionIInv
<1>1. CASE PlatformSetup
    BY <1>1 DEF PlatformSetup, SelectionTypeOK
<1>2. CASE PlatformUnload
    BY <1>2 DEF PlatformUnload, SelectionTypeOK
<1>3. ASSUME NEW n \in 0 .. MaxListed, NEW l \in [1 .. n -> Devices], Discover(l)
      PROVE  SelectionIInv'
  <2>1. l \in Seq(Devices) /\ Len(l) <= MaxListed
    OBVIOUS
  <2>2. Select(l) \in Devices \cup {NoDevice}
    BY <2>1, SelectFacts, SingleFacts
  <2>3. SelectionTypeOK'
    BY <1>3, <2>1, <2>2 DEF Discover, SelectionTypeOK
  <2>4. Select(l)' = Select(l)
    BY <1>3, SelectUnchanged DEF Discover
  <2>5. selected' = Select(listing)' /\ entity' # NoDevice
    BY <1>3, <2>4 DEF Discover
  <2> QED BY <2>3, <2>5
<1>4. CASE UNCHANGED selectionVars
  <2>1. Select(listing)' = Select(listing)
    BY <1>4 DEF selectionVars, Select, Decide, Single, Expected, Aliased, Modelled
  <2> QED BY <1>4, <2>1 DEF selectionVars, SelectionTypeOK
<1> QED
    BY <1>1, <1>2, <1>3, <1>4 DEF SelectionNext

THEOREM SelectionInvariant == SelectionSpec => []SelectionIInv
    BY SelectionInitIInv, SelectionNextIInv, PTL DEF SelectionSpec

LEMMA OrderNeverMatters == SelectionIInv => OrderIrrelevant
<1> SUFFICES ASSUME SelectionIInv, NEW p \in [DOMAIN listing -> DOMAIN listing], IsInjective(p)
             PROVE  Select([i \in DOMAIN listing |-> listing[p[i]]]) = Select(listing)
    BY DEF OrderIrrelevant
<1>1. listing \in Seq(Devices)
    BY DEF SelectionIInv, SelectionTypeOK
<1>2. \A passing : Single([i \in DOMAIN listing |-> listing[p[i]]], passing)
                   = Single(listing, passing)
    BY <1>1, SingleOfReordered
<1> QED
    BY <1>2 DEF Select

LEMMA BystandersNeverMatter == SelectionIInv => BystandersIgnored
<1> SUFFICES ASSUME SelectionIInv, NEW i \in DOMAIN listing,
                    listing[i] \notin Expected \cup Aliased \cup Modelled
             PROVE  selected # listing[i] /\ Select(Without(listing, i)) = Select(listing)
    BY DEF BystandersIgnored
<1>1. listing \in Seq(Devices) /\ listing[i] # NoDevice
    BY DeviceAssumption DEF SelectionIInv, SelectionTypeOK
<1>2. /\ Single(Without(listing, i), Expected) = Single(listing, Expected)
      /\ Single(Without(listing, i), Aliased) = Single(listing, Aliased)
      /\ Single(Without(listing, i), Modelled) = Single(listing, Modelled)
    BY <1>1, BystanderNotSingle
<1>3. Select(Without(listing, i)) = Select(listing)
    BY <1>2 DEF Select
<1>4. Select(listing) # listing[i]
    BY <1>1, SelectFacts, SingleFacts
<1> QED
    BY <1>1, <1>3, <1>4 DEF SelectionIInv

\* In listings of any length, neither the order of the candidates nor the
\* presence of unrelated ones changes what _select_video_keypad returns.
THEOREM SelectionStaysConsistent == SelectionSpec => []SelectionConsistent
<1>1. SelectionIInv => SelectionConsistent
    BY OrderNeverMatters, BystandersNeverMatter DEF SelectionIInv, SelectionConsistent
<1> QED
    BY SelectionInvariant, <1>1, PTL

\* A device listed once is the outcome of the test for it, which comes first.
LEMMA OwnDeviceSelected == SelectionIInv => OwnDeviceFirst
<1> SUFFICES ASSUME SelectionIInv, selected \notin {NoDevice, entity},
                    Cardinality({i \in DOMAIN listing : listing[i] = entity}) = 1
             PROVE  FALSE
    BY DEF OwnDeviceFirst
<1>1. listing \in Seq(Devices) /\ selected = Select(listing)
    BY DEF SelectionIInv, SelectionTypeOK
<1>2. IsFiniteSet({i \in DOMAIN listing : listing[i] = entity})
    BY <1>1, FS_Interval, FS_Subset
<1>3. PICK k : {i \in DOMAIN listing : listing[i] = entity} = {k}
    BY <1>2, FS_Singleton
<1>4. Single(listing, Expected) = {entity}
    BY <1>3 DEF Single, Expected
<1> QED
    BY <1>1, <1>4, SelectFacts

\* Whatever the aliases and models of the devices are, an entity whose own
\* device the signaling server lists once shows no other device.
THEOREM OwnDeviceAlwaysFirst == SelectionSpec => []OwnDeviceFirst
    BY SelectionInvariant, OwnDeviceSelected, PTL
=============================================================================
