---------------------------- MODULE LogCallsProofs ----------------------------
(***************************************************************************)
(* Theorems about the handles of a logger, for any set of handle objects,  *)
(* and for an implementation whose destructor stops and joins, as those of *)
(* the ostream loggers do; and about the calls made through the handles    *)
(* and the lines they print, for any texts, message variables, levels and  *)
(* handles.                                                                *)
(***************************************************************************)
EXTENDS LogCalls, FiniteSetTheorems, TLAPS

-----------------------------------------------------------------------------
(* The handles                                                             *)

\* The steps of the destructor of the implementation.
DyingSteps == {"implStop", "implJoin", "implFree"}

\* Who may own the logger, and that one thread at most destroys it: whoever saw
\* itself to be the only owner stays so, because only an owner that is not in
\* its destructor can be copied.
OwnerInv ==
  /\ IsFiniteSet(Owners)
  /\ \A h \in Handles :
       /\ m_pLogger[h] => pc[h] \in {"idle", "stop", "join", "release"}
       /\ pc[h] \in {"stop", "join"} => Owners = {h}
       /\ pc[h] \in DyingSteps => Owners = {} /\ impl = "dying"
  /\ \A h, g \in Handles : pc[h] \in DyingSteps /\ pc[g] \in DyingSteps => h = g

\* What the destructor of the implementation has achieved stays so.
StoppedInv ==
  /\ ~terminated
  /\ \A h \in Handles :
       pc[h] \in {"implJoin", "implFree"} => ~running /\ killer = "none"

HandleInv == TypeOK /\ OwnerInv /\ StoppedInv

-----------------------------------------------------------------------------

\* use_count() is 1 for the only owner.
LEMMA LastOwner ==
  ASSUME TypeOK, IsFiniteSet(Owners), NEW h \in Handles, SeesLastHandle(h)
  PROVE  Owners = {h}
<1>1. h \in Owners /\ Cardinality(Owners) = 1
  BY DEF SeesLastHandle, use_count, Owners
<1>2. PICK g : Owners = {g}
  BY <1>1, FS_Singleton
<1> QED
  BY <1>1, <1>2

LEMMA HandleInit == Init => HandleInv
<1> SUFFICES ASSUME Init PROVE HandleInv
  OBVIOUS
<1>1. PICK h \in Handles :
        /\ pc = [g \in Handles |-> IF g = h THEN "idle" ELSE "unborn"]
        /\ m_pLogger = [g \in Handles |-> g = h]
  BY DEF Init
<1>2. Owners = {h}
  BY <1>1 DEF Owners
<1>3. IsFiniteSet(Owners)
  BY <1>2, FS_Singleton
<1>4. TypeOK
  BY <1>1, <1>2 DEF Init, TypeOK, HandleSteps
<1>5. OwnerInv
  BY <1>1, <1>3 DEF OwnerInv, DyingSteps
<1> QED
  BY <1>1, <1>4, <1>5 DEF HandleInv, StoppedInv, Init

\* The handles that own the logger after a step, and that they are finitely many.
LEMMA OwnersAfter ==
  ASSUME HandleInv, m_pLogger' \in [Handles -> BOOLEAN], NEW h \in Handles,
         NEW g \in Handles,
         \A x \in Handles \ {h, g} : m_pLogger'[x] = m_pLogger[x]
  PROVE  /\ IsFiniteSet(Owners')
         /\ Owners' \ {h, g} = Owners \ {h, g}
<1>1. Owners' \ {h, g} = Owners \ {h, g}
  BY DEF Owners
<1>2. IsFiniteSet((Owners \cup {h}) \cup {g})
  BY FS_AddElement DEF HandleInv, OwnerInv
<1>3. Owners' \subseteq (Owners \cup {h}) \cup {g}
  BY <1>1
<1> QED
  BY <1>1, <1>2, <1>3, FS_Subset

LEMMA HandleStep == ASSUME ImplStops, HandleInv, [Next]_vars PROVE HandleInv'
<1> USE DEF HandleInv, TypeOK, OwnerInv, StoppedInv, HandleSteps, DyingSteps, At,
            Goto
<1>1. ASSUME NEW h \in Handles, NEW g \in Handles,
             CopyConstruct(h, g) \/ MoveConstruct(h, g) \/ AssignFrom(h, g)
      PROVE  HandleInv'
  <2>1. /\ m_pLogger' \in [Handles -> BOOLEAN] /\ pc[h] = "idle"
        /\ h # g
        /\ \A x \in Handles \ {h, g} : m_pLogger'[x] = m_pLogger[x]
        /\ pc'[h] = "idle" /\ pc'[g] = "idle" /\ pc' \in [Handles -> HandleSteps]
        /\ \A x \in Handles \ {h, g} : pc'[x] = pc[x]
        /\ UNCHANGED <<engineVars, implVars>>
    BY <1>1 DEF CopyConstruct, MoveConstruct, AssignFrom
  <2>2. IsFiniteSet(Owners') /\ Owners' \ {h, g} = Owners \ {h, g}
    BY <2>1, OwnersAfter
  <2>3. m_pLogger[h] \/ ~m_pLogger[g]
    BY <1>1 DEF CopyConstruct, AssignFrom, MoveConstruct
  <2>4. m_pLogger[h] \/ (~m_pLogger'[h] /\ ~m_pLogger'[g])
    BY <1>1, <2>1 DEF CopyConstruct, AssignFrom, MoveConstruct
  <2>5. CASE m_pLogger[h]
    <3>1. h \in Owners
      BY <2>5 DEF Owners
    <3>2. /\ \A x \in Handles : pc[x] \notin {"stop", "join"} \cup DyingSteps
          /\ impl = "alive"
      BY <2>1, <3>1
    <3> QED
      BY <2>1, <2>2, <3>2 DEF engineVars, implVars
  <2>6. CASE ~m_pLogger[h]
    <3>1. Owners' = Owners
      BY <2>1, <2>2, <2>3, <2>4, <2>6 DEF Owners
    <3> QED
      BY <2>1, <2>3, <2>4, <2>6, <3>1 DEF engineVars, implVars
  <2> QED
    BY <2>5, <2>6
<1>2. ASSUME NEW h \in Handles, m_pLogger[h],
             m_pLogger' = [m_pLogger EXCEPT ![h] = FALSE],
             pc[h] \in {"idle", "release"}, DropLast(h),
             NEW rest \in {"idle", "gone"}, pc' = [pc EXCEPT ![h] = AfterDrop(h, rest)],
             UNCHANGED <<engineVars, terminated>>
      PROVE  HandleInv'
  <2>1. Owners' = Owners \ {h} /\ h \in Owners
    BY <1>2 DEF Owners
  <2>2. IsFiniteSet(Owners')
    BY <2>1, FS_RemoveElement
  <2>3. impl = "alive" /\ \A x \in Handles : pc[x] \notin DyingSteps
    BY <2>1
  <2>4. CASE Owners = {h}
    BY <1>2, <2>1, <2>2, <2>3, <2>4 DEF DropLast, AfterDrop, engineVars
  <2>5. CASE Owners # {h}
    BY <1>2, <2>1, <2>2, <2>3, <2>5 DEF DropLast, AfterDrop, engineVars
  <2> QED
    BY <2>4, <2>5
<1>3. ASSUME NEW h \in Handles, AssignAway(h) PROVE HandleInv'
  BY <1>2, <1>3 DEF AssignAway
<1>4. ASSUME NEW h \in Handles, Forward(h) PROVE HandleInv'
  <2>1. h \in Owners /\ Owners' = Owners
    BY <1>4 DEF Forward, Owners
  <2>2. \A x \in Handles : pc[x] \notin DyingSteps
    BY <2>1
  <2> QED
    BY <1>4, <2>1, <2>2 DEF Forward, EngineStart, EngineStop, EngineSignalStop,
                            EngineJoin, implVars
<1>5. ASSUME NEW h \in Handles, DestroyHandle(h) PROVE HandleInv'
  <2>1. Owners' = Owners
    BY <1>5 DEF DestroyHandle, Owners
  <2>2. CASE SeesLastHandle(h)
    <3>1. Owners = {h}
      BY <2>2, LastOwner
    <3> QED
      BY <1>5, <2>1, <2>2, <3>1 DEF DestroyHandle, SeesLastHandle, engineVars,
                                    implVars
  <2>3. CASE ~SeesLastHandle(h)
    BY <1>5, <2>1, <2>3 DEF DestroyHandle, engineVars, implVars
  <2> QED
    BY <2>2, <2>3
<1>6. ASSUME NEW h \in Handles, DestroyStop(h) \/ DestroyJoin(h) PROVE HandleInv'
  <2>1. Owners' = Owners /\ Owners = {h}
    BY <1>6 DEF DestroyStop, DestroyJoin, Owners
  <2>2. impl = "alive" /\ \A x \in Handles : pc[x] \notin DyingSteps
    BY <2>1
  <2>3. \A x \in Handles : pc'[x] \notin DyingSteps
    BY <1>6, <2>2 DEF DestroyStop, DestroyJoin
  <2>4. TypeOK'
    BY <1>6, <2>1, <2>2 DEF DestroyStop, DestroyJoin, EngineStop, EngineJoin,
                            implVars
  <2>5. OwnerInv'
    BY <1>6, <2>1, <2>3 DEF DestroyStop, DestroyJoin
  <2> QED
    BY <1>6, <2>3, <2>4, <2>5 DEF DestroyStop, DestroyJoin, implVars
<1>7. ASSUME NEW h \in Handles, Release(h) PROVE HandleInv'
  <2>1. CASE m_pLogger[h]
    BY <1>2, <1>7, <2>1 DEF Release
  <2>2. CASE ~m_pLogger[h]
    <3>1. m_pLogger' = m_pLogger /\ Owners' = Owners
      BY <1>7, <2>2 DEF Release, Owners
    <3> QED
      BY <1>7, <2>2, <3>1 DEF Release, engineVars
  <2> QED
    BY <2>1, <2>2
<1>8. ASSUME NEW h \in Handles, ImplStop(h) \/ ImplJoin(h) \/ ImplFree(h)
      PROVE  HandleInv'
  <2>1. Owners' = Owners /\ Owners = {}
    BY <1>8 DEF ImplStop, ImplJoin, ImplFree, Owners
  <2>2. \A x \in Handles : x # h => pc[x] \notin DyingSteps /\ pc'[x] = pc[x]
    BY <1>8 DEF ImplStop, ImplJoin, ImplFree
  <2>3. CASE ImplStop(h)
    BY <2>1, <2>2, <2>3 DEF ImplStop, EngineStop, implVars
  <2>4. CASE ImplJoin(h)
    BY <2>1, <2>2, <2>4 DEF ImplJoin, EngineJoin, implVars
  <2>5. CASE ImplFree(h)
    BY <2>1, <2>2, <2>5 DEF ImplFree, engineVars
  <2> QED
    BY <1>8, <2>3, <2>4, <2>5
<1>9. ASSUME KillerEnds PROVE HandleInv'
  <2>1. Owners' = Owners
    BY <1>9 DEF KillerEnds, Owners
  <2> QED
    BY <1>9, <2>1 DEF KillerEnds, implVars
<1>10. ASSUME UNCHANGED vars PROVE HandleInv'
  <2>1. Owners' = Owners
    BY <1>10 DEF vars, Owners
  <2> QED
    BY <1>10, <2>1 DEF vars
<1> QED
  BY <1>1, <1>3, <1>4, <1>5, <1>6, <1>7, <1>8, <1>9, <1>10 DEF Next, Destruction

\* The inductive invariant of the handles, where the destructor of the
\* implementation stops and joins.
THEOREM HandleInvariant == ASSUME ImplStops PROVE Spec => []HandleInv
<1>1. HandleInv /\ [Next]_vars => HandleInv'
  BY HandleStep
<1> QED
  BY <1>1, HandleInit, PTL DEF Spec

-----------------------------------------------------------------------------

\* However many handles are copied, moved, assigned and destroyed by as many
\* threads, no thread of the logger outlives the implementation.
THEOREM CleanDestructionHolds == ASSUME ImplStops PROVE Spec => []CleanDestruction
<1>1. HandleInv => CleanDestruction
  BY DEF HandleInv, StoppedInv, CleanDestruction
<1> QED
  BY <1>1, HandleInvariant, PTL

\* A destructor that has decided to stop the logger is alone with it when it
\* does: nobody can have copied the handle meanwhile.
THEOREM OthersKeepRunningHolds == ASSUME ImplStops PROVE Spec => OthersKeepRunning
<1> DEFINE Alone == \A h \in Handles :
                      pc[h] = "stop" /\ pc'[h] = "join" => Owners = {h}
<1>1. HandleInv => Alone
  BY DEF HandleInv, OwnerInv
<1> QED
  BY <1>1, HandleInvariant, PTL DEF OthersKeepRunning

-----------------------------------------------------------------------------
(* The calls                                                               *)

allCallVars == <<vars, callVars>>

\* Calls and messages leave the life of the handles alone.
THEOREM HandlesImplemented == CallsSpec => Spec
<1>1. CallsInit => Init
  BY DEF CallsInit
<1>2. [CallsNext]_allCallVars => [Next]_vars
  BY DEF CallsNext, allCallVars, MakeMessage, LogText, LogView, LogException,
         CopyMessage, MoveMessage, LogMessage, Work
<1> QED
  BY <1>1, <1>2, PTL DEF CallsSpec, Spec, allCallVars

-----------------------------------------------------------------------------
(* The names of the levels                                                 *)

LevelTexts == ToSet(NAMES) \cup {"", "CUSTOM"}

LEMMA NamesAt ==
  /\ DOMAIN NAMES = 1..9
  /\ NAMES[1] = "SUCCESS" /\ NAMES[2] = "TRACE" /\ NAMES[3] = "DEBUG"
  /\ NAMES[4] = "INFO" /\ NAMES[5] = "MESSAGE" /\ NAMES[6] = "WARNING"
  /\ NAMES[7] = "ERROR" /\ NAMES[8] = "CRITICAL" /\ NAMES[9] = "FATAL"
  BY DEF NAMES

LEMMA LevelValues ==
  /\ DOMAIN Level = {"SUCCESS", "TRACE", "DEBUG", "INFO", "MESSAGE", "WARNING",
                     "ERROR", "CRITICAL", "FATAL"}
  /\ Level.SUCCESS = 0 /\ Level.TRACE = 1 /\ Level.DEBUG = 2 /\ Level.INFO = 3
  /\ Level.MESSAGE = 4 /\ Level.WARNING = 5 /\ Level.ERROR = 6
  /\ Level.CRITICAL = 7 /\ Level.FATAL = 8
  BY DEF Level

LEMMA NamesOfLevels == DOMAIN Level \cup {"", "CUSTOM"} \subseteq LevelTexts
<1>1. \A i \in 1..9 : NAMES[i] \in ToSet(NAMES)
  BY NamesAt DEF ToSet
<1>2. /\ NAMES[1] \in ToSet(NAMES) /\ NAMES[2] \in ToSet(NAMES)
      /\ NAMES[3] \in ToSet(NAMES) /\ NAMES[4] \in ToSet(NAMES)
      /\ NAMES[5] \in ToSet(NAMES) /\ NAMES[6] \in ToSet(NAMES)
      /\ NAMES[7] \in ToSet(NAMES) /\ NAMES[8] \in ToSet(NAMES)
      /\ NAMES[9] \in ToSet(NAMES)
  BY <1>1
<1> QED
  BY <1>2, NamesAt, LevelValues DEF LevelTexts

LEMMA SwitchNames ==
  /\ getNameView14(0) = "SUCCESS" /\ getNameView14(1) = "TRACE"
  /\ getNameView14(2) = "DEBUG" /\ getNameView14(3) = "INFO"
  /\ getNameView14(4) = "MESSAGE" /\ getNameView14(5) = "WARNING"
  /\ getNameView14(6) = "ERROR" /\ getNameView14(7) = "CRITICAL"
  /\ getNameView14(8) = "FATAL"
  BY LevelValues DEF getNameView14

\* The table, or the switch, gives every value the name the enum gives it.
LEMMA NameOfValue ==
  ASSUME cpp17 \in BOOLEAN, NEW n \in Nat
  PROVE  /\ \A name \in DOMAIN Level : Level[name] = n => getName(n) = name
         /\ (\A name \in DOMAIN Level : Level[name] # n) => getName(n) = ""
<1>1. CASE n \in 0..8
  <2>1. n = 0 \/ n = 1 \/ n = 2 \/ n = 3 \/ n = 4 \/ n = 5 \/ n = 6 \/ n = 7 \/ n = 8
    BY <1>1
  <2>2. ~(n > Level.FATAL)
    BY <1>1, LevelValues
  <2>3. getName(n) \in {NAMES[n + 1], getNameView14(n)}
    BY <2>2 DEF getName
  <2>4. \A name \in DOMAIN Level : Level[name] = n => NAMES[n + 1] = name
    BY <2>1, LevelValues, NamesAt
  <2>5. \A name \in DOMAIN Level : Level[name] = n => getNameView14(n) = name
    BY <2>1, LevelValues, SwitchNames
  <2>6. \E name \in DOMAIN Level : Level[name] = n
    BY <2>1, LevelValues
  <2> QED
    BY <2>3, <2>4, <2>5, <2>6
<1>2. CASE n > 8
  <2>1. n > Level.FATAL
    BY <1>2, LevelValues
  <2>2. \A name \in DOMAIN Level : Level[name] # n
    BY <1>2, LevelValues
  <2> QED
    BY <2>1, <2>2 DEF getName
<1>3. n \in 0..8 \/ n > 8
  OBVIOUS
<1> QED
  BY <1>1, <1>2, <1>3

LEMMA LevelTextNames ==
  ASSUME cpp17 \in BOOLEAN, NEW level \in Levels \cup {Custom}
  PROVE  LevelText(level) = Enumerator(level) /\ LevelText(level) \in LevelTexts
<1>1. CASE level = Custom
  BY <1>1, NamesOfLevels DEF LevelText, Enumerator
<1>2. CASE level # Custom
  <2>1. level \in Nat /\ LevelText(level) = getName(level)
    BY <1>2, CallsAssumption DEF LevelText
  <2>2. CASE \E name \in DOMAIN Level : Level[name] = level
    BY <1>2, <2>1, <2>2, NameOfValue, NamesOfLevels, LevelValues, ZenonT(60) DEF Enumerator
  <2>3. CASE \A name \in DOMAIN Level : Level[name] # level
    BY <1>2, <2>1, <2>3, NameOfValue, NamesOfLevels DEF Enumerator
  <2> QED
    BY <2>2, <2>3
<1> QED
  BY <1>1, <1>2

-----------------------------------------------------------------------------
(* Messages on their way to their lines                                    *)

CallTypes ==
  /\ cpp17 \in BOOLEAN
  /\ asked \in [Texts -> Levels \cup {Custom, NoLevel}]
  /\ m_sString \in [Texts -> {"none", "whole", "empty"}]
  /\ object \in [Objects -> Message]
  /\ given \in Seq(Message)
  /\ lines \in Seq([level : LevelTexts, of : Texts \cup {NoText},
                    text : {"whole", "empty"}])

\* The texts that have been made into messages, and the level each was given.
Made == {t \in Texts : m_sString[t] # "none"}
LevelGiven == [t \in Texts |-> LevelText(asked[t])]

\* What is said of a text, by a message or a line, is the level it was given.
Says(level, t, made, levels) ==
  \/ t = NoText /\ level = ""
  \/ t \in made /\ level = levels[t]

Sound(message, made, levels) == Says(message.m_sLevel, message.m_pImpl, made, levels)

MessageInv ==
  /\ \A t \in Made : asked[t] \in Levels \cup {Custom}
  /\ \A o \in Objects : Sound(object[o], Made, LevelGiven)
  /\ \A i \in DOMAIN given : Sound(given[i], Made, LevelGiven)

\* The string of a text is empty exactly when a line has shown it.
LineInv ==
  /\ \A i \in DOMAIN lines : Says(lines[i].level, lines[i].of, Made, LevelGiven)
  /\ \A t \in Texts :
       m_sString[t] = "empty" <=> \E i \in DOMAIN lines : lines[i].of = t
  /\ TextOnce

CallInv == CallTypes /\ MessageInv /\ LineInv

LEMMA BlankSound == Blank \in Message /\ \A made, levels : Sound(Blank, made, levels)
  BY DEF Blank, Message, Sound, Says

LEMMA CallInvInit == CallsInit => CallInv
<1> SUFFICES ASSUME CallsInit PROVE CallInv
  OBVIOUS
<1>1. CallTypes
  BY BlankSound DEF CallsInit, CallTypes
<1>2. MessageInv
  BY BlankSound DEF CallsInit, MessageInv, Made
<1>3. LineInv
  BY DEF CallsInit, LineInv, TextOnce
<1> QED
  BY <1>1, <1>2, <1>3 DEF CallInv

\* The level of a text is settled when it is made.
Settled == Made \subseteq Made' /\ \A t \in Made : LevelGiven'[t] = LevelGiven[t]

LEMMA StillSound ==
  ASSUME Settled
  PROVE  /\ \A message : Sound(message, Made, LevelGiven) =>
                           Sound(message, Made', LevelGiven')
         /\ \A level, t : Says(level, t, Made, LevelGiven) =>
                            Says(level, t, Made', LevelGiven')
  BY DEF Settled, Sound, Says

LEMMA SettledBySame ==
  ASSUME CallTypes, cpp17' = cpp17, asked' = asked,
         \A x \in Texts : m_sString[x] # "none" => m_sString'[x] # "none"
  PROVE  Settled /\ LevelGiven' = LevelGiven
  BY DEF Settled, Made, LevelGiven, LevelText, getName

\* The first use of a text changes what no message says.
LEMMA NewText ==
  ASSUME CallInv, NEW level \in Levels \cup {Custom}, NEW t \in Texts,
         MakeImpl(level, t), cpp17' = cpp17
  PROVE  /\ asked' \in [Texts -> Levels \cup {Custom, NoLevel}]
         /\ m_sString' \in [Texts -> {"none", "whole", "empty"}]
         /\ \A x \in Made' : asked'[x] \in Levels \cup {Custom}
         /\ \A x \in Texts : m_sString'[x] = "empty" <=> m_sString[x] = "empty"
         /\ Settled
         /\ NewMessage(level, t) \in Message
         /\ Sound(NewMessage(level, t), Made', LevelGiven')
<1> USE DEF CallInv, CallTypes
<1>1. /\ m_sString[t] = "none"
      /\ m_sString' = [m_sString EXCEPT ![t] = "whole"]
      /\ asked' = [asked EXCEPT ![t] = level]
  BY DEF MakeImpl
<1>2. Made' = Made \cup {t} /\ t \notin Made
  BY <1>1 DEF Made
<1>3. LevelGiven' = [LevelGiven EXCEPT ![t] = LevelText(level)]
  BY <1>1 DEF LevelGiven, LevelText, getName
<1>4. LevelGiven'[t] = LevelText(level) /\ \A x \in Made : LevelGiven'[x] = LevelGiven[x]
  BY <1>2, <1>3 DEF LevelGiven, Made
<1>5. NewMessage(level, t) \in Message
  BY LevelTextNames DEF NewMessage, Message, LevelTexts
<1>6. Sound(NewMessage(level, t), Made', LevelGiven')
  BY <1>2, <1>4 DEF Sound, Says, NewMessage
<1>7. \A x \in Made' : asked'[x] \in Levels \cup {Custom}
  BY <1>1, <1>2 DEF MessageInv, Made
<1> QED
  BY <1>1, <1>2, <1>4, <1>5, <1>6, <1>7 DEF Settled

LEMMA SameLines ==
  ASSUME LineInv, Settled, lines' = lines,
         \A t \in Texts : m_sString'[t] = "empty" <=> m_sString[t] = "empty"
  PROVE  LineInv'
<1>1. TextOnce'
  BY DEF LineInv, TextOnce
<1>2. \A i \in DOMAIN lines : Says(lines[i].level, lines[i].of, Made', LevelGiven')
  BY StillSound DEF LineInv
<1> QED
  BY <1>1, <1>2 DEF LineInv

GivenInv == \A i \in DOMAIN given : Sound(given[i], Made, LevelGiven)

LEMMA GivenSound ==
  ASSUME CallInv, Settled, NEW h \in Handles, NEW message \in Message,
         Give(h, message), Sound(message, Made', LevelGiven')
  PROVE  given' \in Seq(Message) /\ GivenInv'
<1> USE DEF CallInv, CallTypes
<1>1. \A i \in DOMAIN given : Sound(given[i], Made', LevelGiven')
  BY StillSound DEF MessageInv
<1>2. CASE given' = given
  BY <1>1, <1>2 DEF GivenInv
<1>3. CASE given' = Append(given, message)
  <2>1. DOMAIN given = 1..Len(given) /\ DOMAIN given' = 1..(Len(given) + 1)
    BY <1>3
  <2>2. \A i \in DOMAIN given' :
          given'[i] = IF i = Len(given) + 1 THEN message ELSE given[i]
    BY <1>3
  <2>3. GivenInv'
    BY <1>1, <2>1, <2>2 DEF GivenInv
  <2> QED
    BY <1>3, <2>3
<1> QED
  BY <1>2, <1>3 DEF Give

LEMMA WorkStep == ASSUME CallInv, Work PROVE CallInv'
<1> USE DEF CallInv, CallTypes
<1> DEFINE message == Head(given)
           t == message.m_pImpl
           line == [level |-> message.m_sLevel, of |-> t,
                    text |-> IF t = NoText THEN "empty" ELSE m_sString[t]]
<1>1. /\ given # <<>> /\ given' = Tail(given)
      /\ lines' = Append(lines, line)
      /\ m_sString' = [x \in Texts |-> IF x = t THEN "empty" ELSE m_sString[x]]
      /\ UNCHANGED <<cpp17, asked, object>>
  BY DEF Work, Stolen
<1>2. message \in Message /\ Sound(message, Made, LevelGiven)
  BY <1>1 DEF MessageInv
<1>3. t \in Made \cup {NoText} /\ Says(line.level, line.of, Made, LevelGiven)
  BY <1>2 DEF Sound, Says
<1> HIDE DEF message
<1>4. t \in Texts \cup {NoText} /\ message.m_sLevel \in LevelTexts
  BY <1>2 DEF Message, LevelTexts
<1>5. line \in [level : LevelTexts, of : Texts \cup {NoText}, text : {"whole", "empty"}]
  BY <1>3, <1>4 DEF Made
<1>6. line.of = t /\ (line.text = "whole" <=> t # NoText /\ m_sString[t] = "whole")
  BY <1>4
<1> HIDE DEF t, line
<1>7. CallTypes'
  BY <1>1, <1>5
<1>8. Settled
  BY <1>1, SettledBySame
<1>9. MessageInv'
  <2>1. \A i \in DOMAIN given' : i + 1 \in DOMAIN given /\ given'[i] = given[i + 1]
    BY <1>1
  <2>2. \A i \in DOMAIN given' : Sound(given'[i], Made', LevelGiven')
    BY <2>1, <1>8, StillSound DEF MessageInv
  <2>3. Made' = Made
    BY <1>1, <1>3, CallsAssumption DEF Made
  <2> QED
    BY <1>1, <1>8, <2>2, <2>3, StillSound DEF MessageInv
<1>10. /\ DOMAIN lines = 1..Len(lines) /\ Len(lines) \in Nat
       /\ DOMAIN lines' = 1..(Len(lines) + 1)
       /\ \A i \in DOMAIN lines : lines'[i] = lines[i]
       /\ lines'[Len(lines) + 1] = line
  BY <1>1, <1>5
<1>11. \A i \in DOMAIN lines' : Says(lines'[i].level, lines'[i].of, Made', LevelGiven')
  <2>1. \A i \in DOMAIN lines : Says(lines[i].level, lines[i].of, Made', LevelGiven')
    BY <1>8, StillSound DEF LineInv
  <2>2. Says(line.level, line.of, Made', LevelGiven')
    BY <1>3, <1>8, StillSound
  <2> QED
    BY <1>10, <2>1, <2>2
<1>12. \A x \in Texts :
         m_sString'[x] = "empty" <=> \E i \in DOMAIN lines' : lines'[i].of = x
  <2> SUFFICES ASSUME NEW x \in Texts
               PROVE  m_sString'[x] = "empty" <=> \E i \in DOMAIN lines' : lines'[i].of = x
    OBVIOUS
  <2>1. (\E i \in DOMAIN lines' : lines'[i].of = x) <=>
          x = t \/ \E i \in DOMAIN lines : lines[i].of = x
    BY <1>6, <1>10, SMTT(60)
  <2> QED
    BY <1>1, <2>1 DEF LineInv
<1>13. TextOnce'
  <2>1. line.text = "whole" <=>
          t # NoText /\ \A k \in DOMAIN lines : lines[k].of # t
    BY <1>3, <1>6 DEF LineInv, Made
  <2> SUFFICES ASSUME NEW i \in DOMAIN lines'
               PROVE  lines'[i].text = "whole" <=>
                        /\ lines'[i].of # NoText
                        /\ \A k \in 1..(i - 1) : lines'[k].of # lines'[i].of
    BY DEF TextOnce
  <2>2. \A k \in 1..(i - 1) : k \in DOMAIN lines /\ lines'[k] = lines[k]
    BY <1>10
  <2>3. CASE i \in DOMAIN lines
    BY <1>10, <2>2, <2>3 DEF LineInv, TextOnce
  <2>4. CASE i = Len(lines) + 1
    BY <1>6, <1>10, <2>1, <2>2, <2>4, SMTT(60)
  <2> QED
    BY <1>10, <2>3, <2>4
<1> QED
  BY <1>7, <1>9, <1>11, <1>12, <1>13 DEF LineInv

LEMMA CallStep == ASSUME CallInv, [CallsNext]_allCallVars PROVE CallInv'
<1> USE DEF CallInv, CallTypes
<1>1. ASSUME NEW level \in Levels \cup {Custom}, NEW t \in Texts,
             NEW o \in Objects, MakeMessage(o, level, t)
      PROVE  CallInv'
  <2> DEFINE message == NewMessage(level, t)
  <2>1. /\ MakeImpl(level, t) /\ object' = [object EXCEPT ![o] = message]
        /\ UNCHANGED <<cpp17, given, lines>>
    BY <1>1 DEF MakeMessage
  <2>2. /\ asked' \in [Texts -> Levels \cup {Custom, NoLevel}]
        /\ m_sString' \in [Texts -> {"none", "whole", "empty"}]
        /\ \A x \in Made' : asked'[x] \in Levels \cup {Custom}
        /\ \A x \in Texts : m_sString'[x] = "empty" <=> m_sString[x] = "empty"
        /\ Settled /\ message \in Message /\ Sound(message, Made', LevelGiven')
    BY <2>1, NewText
  <2> HIDE DEF message
  <2>3. CallTypes'
    BY <2>1, <2>2
  <2>4. MessageInv'
    BY <2>1, <2>2, StillSound DEF MessageInv
  <2>5. LineInv'
    BY <2>1, <2>2, SameLines
  <2> QED
    BY <2>3, <2>4, <2>5
<1>2. ASSUME NEW level \in Levels \cup {Custom}, NEW t \in Texts,
             NEW h \in Handles, LogText(h, level, t)
      PROVE  CallInv'
  <2> DEFINE message == NewMessage(level, t)
  <2>1. /\ MakeImpl(level, t) /\ Give(h, message)
        /\ UNCHANGED <<cpp17, object, lines>>
    BY <1>2 DEF LogText
  <2>2. /\ asked' \in [Texts -> Levels \cup {Custom, NoLevel}]
        /\ m_sString' \in [Texts -> {"none", "whole", "empty"}]
        /\ \A x \in Made' : asked'[x] \in Levels \cup {Custom}
        /\ \A x \in Texts : m_sString'[x] = "empty" <=> m_sString[x] = "empty"
        /\ Settled /\ message \in Message /\ Sound(message, Made', LevelGiven')
    BY <2>1, NewText
  <2> HIDE DEF message
  <2>3. given' \in Seq(Message) /\ GivenInv'
    BY <2>1, <2>2, GivenSound
  <2>4. CallTypes'
    BY <2>1, <2>2, <2>3
  <2>5. MessageInv'
    BY <2>1, <2>2, <2>3, StillSound DEF MessageInv, GivenInv
  <2>6. LineInv'
    BY <2>1, <2>2, SameLines
  <2> QED
    BY <2>4, <2>5, <2>6
<1>3. ASSUME object' \in [Objects -> Message],
             \A o \in Objects : Sound(object'[o], Made, LevelGiven),
             given' \in Seq(Message), GivenInv',
             UNCHANGED <<cpp17, asked, m_sString, lines>>
      PROVE  CallInv'
  <2>1. CallTypes'
    BY <1>3
  <2>2. Settled /\ Made' = Made
    BY <1>3, SettledBySame DEF Made
  <2>3. MessageInv'
    BY <1>3, <2>2, StillSound DEF MessageInv, GivenInv
  <2>4. LineInv'
    BY <1>3, <2>2, SameLines
  <2> QED
    BY <2>1, <2>3, <2>4
<1>4. ASSUME UNCHANGED <<cpp17, asked, m_sString, given, lines>> PROVE GivenInv'
  BY <1>4, SettledBySame, StillSound DEF MessageInv, GivenInv
<1>5. ASSUME NEW o \in Objects, NEW p \in Objects,
             CopyMessage(o, p) \/ MoveMessage(o, p)
      PROVE  CallInv'
  <2>1. /\ object' \in [Objects -> Message]
        /\ \A x \in Objects : Sound(object'[x], Made, LevelGiven)
    BY <1>5, BlankSound DEF CopyMessage, MoveMessage, MessageInv
  <2>2. UNCHANGED <<cpp17, asked, m_sString, given, lines>>
    BY <1>5 DEF CopyMessage, MoveMessage
  <2> QED
    BY <1>3, <1>4, <2>1, <2>2
<1>6. ASSUME NEW h \in Handles, NEW o \in Objects, LogMessage(h, o)
      PROVE  CallInv'
  <2>1. /\ object' \in [Objects -> Message]
        /\ \A x \in Objects : Sound(object'[x], Made, LevelGiven)
    <3>1. CASE object' = object
      BY <3>1 DEF MessageInv
    <3>2. CASE object' = [object EXCEPT ![o] = Blank]
      BY <3>2, BlankSound DEF MessageInv
    <3> QED
      BY <1>6, <3>1, <3>2 DEF LogMessage
  <2>2. UNCHANGED <<cpp17, asked, m_sString, lines>> /\ Give(h, object[o])
    BY <1>6 DEF LogMessage
  <2>3. Settled
    BY <2>2, SettledBySame
  <2>4. object[o] \in Message /\ Sound(object[o], Made', LevelGiven')
    BY <2>3, StillSound DEF MessageInv
  <2>5. given' \in Seq(Message) /\ GivenInv'
    BY <2>2, <2>3, <2>4, GivenSound
  <2> QED
    BY <1>3, <2>1, <2>2, <2>5
<1>7. ASSUME UNCHANGED callVars PROVE CallInv'
  BY <1>3, <1>4, <1>7 DEF MessageInv, callVars
<1> QED
  BY <1>1, <1>2, <1>5, <1>6, <1>7, WorkStep, CallsAssumption
     DEF CallsNext, LogView, LogException, allCallVars

\* The inductive invariant of the calls: messages, lines and texts agree on what
\* was logged.
THEOREM CallInvariant == CallsSpec => []CallInv
<1>1. CallInv /\ [CallsNext]_allCallVars => CallInv'
  BY CallStep
<1> QED
  BY <1>1, CallInvInit, PTL DEF CallsSpec, allCallVars

-----------------------------------------------------------------------------

\* In both builds a line shows the name of the level its text was given, with
\* any number of copies, moves and reuses of the message in between.
THEOREM LevelAsAskedHolds == CallsSpec => []LevelAsAsked
<1>1. ASSUME CallInv PROVE LevelAsAsked
  <2> SUFFICES ASSUME NEW i \in DOMAIN lines
               PROVE  lines[i].level = IF lines[i].of = NoText THEN ""
                                       ELSE Enumerator(asked[lines[i].of])
    BY DEF LevelAsAsked
  <2>1. Says(lines[i].level, lines[i].of, Made, LevelGiven)
    BY <1>1 DEF CallInv, LineInv
  <2>2. CASE lines[i].of \in Made
    <3>1. /\ asked[lines[i].of] \in Levels \cup {Custom}
          /\ lines[i].of \in Texts /\ lines[i].of # NoText
      BY <1>1, <2>2, CallsAssumption DEF CallInv, MessageInv, Made
    <3>2. lines[i].level = LevelText(asked[lines[i].of])
      BY <2>1, <3>1 DEF Says, LevelGiven
    <3> QED
      BY <1>1, <3>1, <3>2, LevelTextNames DEF CallInv, CallTypes
  <2>3. CASE lines[i].of \notin Made
    BY <2>1, <2>3 DEF Says
  <2> QED
    BY <2>2, <2>3
<1> QED
  BY <1>1, CallInvariant, PTL

\* A text comes out whole in the first line of its message and in no other.
THEOREM TextOnceHolds == CallsSpec => []TextOnce
<1>1. CallInv => TextOnce
  BY DEF CallInv, LineInv
<1> QED
  BY <1>1, CallInvariant, PTL

\* The types of the calls, on top of those of the handles.
THEOREM CallsTypeCorrect == ASSUME ImplStops PROVE CallsSpec => []CallsTypeOK
<1>1. HandleInv /\ CallInv => CallsTypeOK
  BY DEF HandleInv, CallInv, CallTypes, CallsTypeOK, LevelTexts
<1> QED
  BY <1>1, CallInvariant, HandleInvariant, HandlesImplemented, PTL
=============================================================================
