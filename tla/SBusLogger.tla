----------------------------- MODULE SBusLogger ------------------------------
(***************************************************************************)
(* The process-wide logger of src/src/c/sbus/sbus.c: the global tag buffer *)
(* str[80], initialised to "CONT #", that sbus_start_logger appends        *)
(* "<container id>: sbus" to before passing it to openlog, and the syslog  *)
(* mask it sets from the level name.  The tag is kept as the sequence of   *)
(* container ids appended so far; its length in bytes follows from it.    *)
(***************************************************************************)
EXTENDS Integers, Sequences

CONSTANTS
  ContainerIds,   \* container ids a start can be given
  IdLength,       \* strlen of a container id
  LevelNames,     \* level strings a start can be given
  StrSize,        \* sizeof(str): 80
  MaxStarts       \* sbus_start_logger calls in one process (bound)

VARIABLES
  str,        \* container ids strcat'ed onto str, in order
  logopen,    \* openlog in effect (closelog not called since)
  logmask,    \* the process's syslog priority mask
  level       \* the level string of the latest start ("" before any)

logger_vars == <<str, logopen, logmask, level>>

\* Syslog priorities (<sys/syslog.h>).
LOG_EMERG == 0
LOG_CRIT  == 2
LOG_ERR   == 3
LOG_WARNING == 4
LOG_INFO  == 6
LOG_DEBUG == 7
LOG_MASK(pri) == 2^pri
LOG_UPTO(pri) == 2^(pri + 1) - 1

\* Bytes str holds: "CONT #", then "<id>: sbus" per start, and the NUL.
StrLen == 6 + Len(str) * (IdLength + 6) + 1

(***************************************************************************)
(* sbus_translate_log_level: the first name the string starts with; the    *)
(* level names given here are whole strings, so a prefix test is an       *)
(* equality test, and "ERROR" or any other string falls back to LOG_ERR.   *)
(***************************************************************************)
sbus_translate_log_level(s) ==
  CASE s = "DEBUG"    -> LOG_DEBUG
    [] s = "INFO"     -> LOG_INFO
    [] s = "WARNING"  -> LOG_WARNING
    [] s = "CRITICAL" -> LOG_CRIT
    [] s = "OFF"      -> LOG_EMERG
    [] OTHER          -> LOG_ERR

\* glibc setlogmask(m): a zero mask leaves the mask unchanged.
SetLogMask(m) == IF m # 0 THEN m ELSE logmask

(***************************************************************************)
(* sbus_start_logger: closelog, three strcat onto str (never reset),       *)
(* openlog with str as ident, then setlogmask: LOG_EMERG itself for the    *)
(* lowest level, LOG_UPTO(level) for the others.                           *)
(***************************************************************************)
sbus_start_logger(s, id) ==
  LET n == sbus_translate_log_level(s)
  IN /\ Len(str) < MaxStarts
     /\ str' = Append(str, id)
     /\ logopen' = TRUE
     /\ logmask' = SetLogMask(IF n = LOG_EMERG THEN LOG_EMERG ELSE LOG_UPTO(n))
     /\ level' = s

\* sbus_stop_logger: closelog; the mask and str stay as they are.
sbus_stop_logger ==
  /\ logopen' = FALSE
  /\ UNCHANGED <<str, logmask, level>>

\* A process starts with the glibc defaults: no log opened, all priorities.
LoggerInit ==
  /\ str = <<>>
  /\ logopen = FALSE
  /\ logmask = LOG_UPTO(LOG_DEBUG)
  /\ level = ""

LoggerNext ==
  \/ \E s \in LevelNames, id \in ContainerIds : sbus_start_logger(s, id)
  \/ sbus_stop_logger

LoggerSpec == LoggerInit /\ [][LoggerNext]_logger_vars

-----------------------------------------------------------------------------

LoggerTypeOK ==
  /\ str \in Seq(ContainerIds)
  /\ logopen \in BOOLEAN
  /\ logmask \in 1 .. LOG_UPTO(LOG_DEBUG)
  /\ level \in LevelNames \cup {""}

(***************************************************************************)
(* The strcat calls of sbus_start_logger never write past str[80]: the tag *)
(* with its terminating NUL fits in the global buffer, however often the   *)
(* logger is started in the process.                                       *)
(***************************************************************************)
TagFits == StrLen <= StrSize

\* The mask a level asks for: only LOG_EMERG for "OFF", up to it otherwise.
WantedMask(s) ==
  LET n == sbus_translate_log_level(s)
  IN IF n = LOG_EMERG THEN LOG_MASK(LOG_EMERG) ELSE LOG_UPTO(n)

(***************************************************************************)
(* After sbus_start_logger(level, ...) syslog passes exactly the           *)
(* priorities that level asks for: the mask set at sbus.c:80-83 is the     *)
(* level's, whatever an earlier start or the default left.                 *)
(***************************************************************************)
MaskMatchesLevel == level # "" => logmask = WantedMask(level)

=============================================================================
