------------------------------- MODULE LogCalls -------------------------------
(***************************************************************************)
(* The logging calls of BasicLogger (include/cpptrail/base_logger.h), the  *)
(* message objects they build (include/cpptrail/message.h) and the names   *)
(* of the levels (include/cpptrail/def.h), on top of the life of the       *)
(* handles.  All overloads of log() and all severity wrappers come to the  *)
(* same: a message is built from a level and a copy of the text, and moved *)
(* into the implementation if the handle has one.  The implementation is   *)
(* a queue here: it writes what it was given, later and in order.          *)
(***************************************************************************)
EXTENDS LoggerHandle, Sequences, SequencesExt

CONSTANTS
  Texts,    \* the texts; each is made into a message once
  Objects,  \* the message variables of the application
  Levels,   \* the values of Level that calls are made with
  Custom,   \* a level given as a string
  NoLevel,  \* no level yet
  NoText,   \* the empty pointer of a message without implementation
  MaxCalls  \* bound on the messages given to the implementation

VARIABLES
  cpp17,      \* whether the build looks names up in the table or in the switch
  asked,      \* history: the level a text was made into a message with
  m_sString,  \* the string inside the implementation of a message
  object,     \* the message variables
  given,      \* the messages the implementation has and has not written
  lines       \* what it has written

callVars == <<cpp17, asked, m_sString, object, given, lines>>

\* The values of enum class Level.
Level ==
  [SUCCESS |-> 0, TRACE |-> 1, DEBUG |-> 2, INFO |-> 3, MESSAGE |-> 4,
   WARNING |-> 5, ERROR |-> 6, CRITICAL |-> 7, FATAL |-> 8]

\* No enumerator is negative, and a cast may give a larger value.
ASSUME CallsAssumption ==
  /\ Levels \subseteq Nat /\ Level.ERROR \in Levels
  /\ Custom \notin Levels
  /\ NoLevel \notin Levels \cup {Custom}
  /\ NoText \notin Texts
  /\ MaxCalls \in Nat

\* Mutant of NAMES: two neighbours have changed places.
NAMESSwapped ==
  <<"SUCCESS", "DEBUG", "TRACE", "INFO", "MESSAGE", "WARNING", "ERROR",
    "CRITICAL", "FATAL">>

NAMES ==
  <<"SUCCESS", "TRACE", "DEBUG", "INFO", "MESSAGE", "WARNING", "ERROR",
    "CRITICAL", "FATAL">>

getNameView14(n) ==
  CASE n = Level.SUCCESS  -> "SUCCESS"
    [] n = Level.TRACE    -> "TRACE"
    [] n = Level.DEBUG    -> "DEBUG"
    [] n = Level.INFO     -> "INFO"
    [] n = Level.MESSAGE  -> "MESSAGE"
    [] n = Level.WARNING  -> "WARNING"
    [] n = Level.ERROR    -> "ERROR"
    [] n = Level.CRITICAL -> "CRITICAL"
    [] n = Level.FATAL    -> "FATAL"
    [] OTHER -> ""

getName(n) ==
  IF n > Level.FATAL THEN "" ELSE IF cpp17 THEN NAMES[n + 1] ELSE getNameView14(n)

LevelText(level) == IF level = Custom THEN "CUSTOM" ELSE getName(level)

\* BasicMessage(): what a default construction and a move leave behind.
Blank == [m_sLevel |-> "", m_pImpl |-> NoText]

Message ==
  [m_sLevel : ToSet(NAMES) \cup {"", "CUSTOM"}, m_pImpl : Texts \cup {NoText}]

CallsTypeOK ==
  /\ TypeOK
  /\ cpp17 \in BOOLEAN
  /\ asked \in [Texts -> Levels \cup {Custom, NoLevel}]
  /\ m_sString \in [Texts -> {"none", "whole", "empty"}]
  /\ object \in [Objects -> Message]
  /\ given \in Seq(Message)
  /\ lines \in Seq([level : ToSet(NAMES) \cup {"", "CUSTOM"},
                    of : Texts \cup {NoText}, text : {"whole", "empty"}])

CallsInit ==
  /\ Init
  /\ cpp17 \in BOOLEAN
  /\ asked = [t \in Texts |-> NoLevel]
  /\ m_sString = [t \in Texts |-> "none"]
  /\ object = [o \in Objects |-> Blank]
  /\ given = <<>>
  /\ lines = <<>>

-----------------------------------------------------------------------------
(* Messages                                                                *)

\* BasicStringMessage(level, text): from a string, a view, a literal or an
\* exception, the text is copied into a new implementation.
NewMessage(level, t) == [m_sLevel |-> LevelText(level), m_pImpl |-> t]

MakeImpl(level, t) ==
  /\ m_sString[t] = "none"
  /\ m_sString' = [m_sString EXCEPT ![t] = "whole"]
  /\ asked' = [asked EXCEPT ![t] = level]

MakeMessage(o, level, t) ==
  /\ MakeImpl(level, t)
  /\ object' = [object EXCEPT ![o] = NewMessage(level, t)]
  /\ UNCHANGED <<vars, cpp17, given, lines>>

CopyMessage(o, p) ==
  /\ object' = [object EXCEPT ![p] = object[o]]
  /\ UNCHANGED <<vars, cpp17, asked, m_sString, given, lines>>

MoveMessage(o, p) ==
  /\ o # p
  /\ object' = [object EXCEPT ![p] = object[o], ![o] = Blank]
  /\ UNCHANGED <<vars, cpp17, asked, m_sString, given, lines>>

-----------------------------------------------------------------------------
(* Logging                                                                 *)

\* log(message): an empty handle drops it.
Give(h, message) ==
  /\ At(h, "idle")
  /\ Len(given) + Len(lines) < MaxCalls
  /\ given' = IF m_pLogger[h] THEN Append(given, message) ELSE given

\* log(level, string), with an enumerator or a string for the level, and the
\* wrapper of each severity.
LogText(h, level, t) ==
  /\ MakeImpl(level, t)
  /\ Give(h, NewMessage(level, t))
  /\ UNCHANGED <<vars, cpp17, object, lines>>

\* The same for views and literals, which C++17 builds have.
LogView(h, level, t) == cpp17 /\ LogText(h, level, t)

\* log(exception): its text, with the level of an error unless one is given.
LogException(h, t) == LogText(h, Level.ERROR, t)

\* A message variable is passed as a copy, or moved from.
LogMessage(h, o) ==
  /\ Give(h, object[o])
  /\ object' \in {object, [object EXCEPT ![o] = Blank]}
  /\ UNCHANGED <<vars, cpp17, asked, m_sString, lines>>

\* Mutant of Stolen: the string is copied out.
StolenByCopy(t) == m_sString[t]

\* What stealString() leaves in the implementation.
Stolen(t) == "empty"

\* The implementation writes a line with stealLevel() and stealString().
Work ==
  /\ ~terminated /\ impl # "destroyed"
  /\ given # <<>>
  /\ LET message == Head(given)
         t == message.m_pImpl
     IN  /\ lines' = Append(lines,
              [level |-> message.m_sLevel, of |-> t,
               text |-> IF t = NoText THEN "empty" ELSE m_sString[t]])
         /\ m_sString' = [x \in Texts |-> IF x = t THEN Stolen(t) ELSE m_sString[x]]
  /\ given' = Tail(given)
  /\ UNCHANGED <<vars, cpp17, asked, object>>

CallsNext ==
  \/ Next /\ UNCHANGED callVars
  \/ \E level \in Levels \cup {Custom}, t \in Texts :
       \/ \E o \in Objects : MakeMessage(o, level, t)
       \/ \E h \in Handles : LogText(h, level, t) \/ LogView(h, level, t)
  \/ \E h \in Handles, t \in Texts : LogException(h, t)
  \/ \E o, p \in Objects : CopyMessage(o, p) \/ MoveMessage(o, p)
  \/ \E h \in Handles, o \in Objects : LogMessage(h, o)
  \/ Work

CallsSpec == CallsInit /\ [][CallsNext]_<<vars, callVars>>

-----------------------------------------------------------------------------
(* What a line says                                                        *)

\* The enumerator a value belongs to; a value that has none has no name.
Enumerator(level) ==
  IF level = Custom THEN "CUSTOM"
  ELSE IF \E name \in DOMAIN Level : Level[name] = level
       THEN CHOOSE name \in DOMAIN Level : Level[name] = level
       ELSE ""

\* A line shows the level its text was logged with, by the name the enum gives
\* it, in both builds, and through any number of copies and moves of the
\* message; a message that was moved from shows none.
LevelAsAsked ==
  \A i \in DOMAIN lines :
    lines[i].level = IF lines[i].of = NoText THEN "" ELSE Enumerator(asked[lines[i].of])

\* A text is printed by the first line of its message, whole, and never again,
\* although its copies are logged by other handles, written or dropped later
\* and in between.
TextOnce ==
  \A i \in DOMAIN lines :
    lines[i].text = "whole" <=>
      /\ lines[i].of # NoText
      /\ \A k \in 1..(i - 1) : lines[k].of # lines[i].of
=============================================================================
