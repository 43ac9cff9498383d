----------------------------- MODULE MCPkSequential -----------------------------
(* The parts that run on one thread at a time, or under one lock throughout, so  *)
(* that what is hard about them is a long sequence of calls: frames, the log,    *)
(* the dictionary, the timers' heap and the setting up.  They share no state: a  *)
(* behaviour of this run is one of one of them, the rest standing still.         *)
EXTENDS PkParser, PkLog, PkDict, PkTimers, PkSetup

\* Frames without data, that fit and that do not fit the buffer, and malformed
\* ones.  Ends of streams come in frames without data, as pk_format_eof makes them.
Plain(n) == [ok |-> "yes", data |-> n, eof |-> n = 0]
MCShapes ==
    {Plain(0), Plain(2), Plain(5)}
    \cup {[ok |-> k, data |-> 1, eof |-> FALSE] : k \in {"bad_frame", "bad_chunk", "no_line"}}

\* Two keys whose buckets wrap and meet, and one apart, in tables of 2 to 8 entries.
MCHome(key, bits) ==
    CASE bits = 1 -> 1
      [] key = "a" -> 2^bits - 1
      [] key = "b" -> 1
      [] OTHER -> 2^bits - 2

\* What pagekitec and the other programs of the repository call with.
MCFlagSets ==
    {{}, {"ipv4"}, {"ipv6", "dynamic"}, {"ipv4", "ipv6", "noservice"},
     {"ipv4", "ipv6", "service"}, {"ipv4", "ipv6", "sni"}, {"defaults", "sni"}}

VARIABLE part

MCInit ==
    /\ Init /\ LogInit /\ DictInit /\ TimersInit /\ SetupInit
    /\ \/ part = "parser"
       \/ part \in {"log", "dict", "timers", "setup"} /\ sent = <<Plain(0)>>

MCNext ==
    /\ UNCHANGED part
    /\ \/ part = "parser" /\ Next /\ UNCHANGED <<logVars, dictVars, timerVars, setupVars>>
       \/ part = "log" /\ LogNext /\ UNCHANGED <<vars, dictVars, timerVars, setupVars>>
       \/ part = "dict" /\ DictNext /\ UNCHANGED <<vars, logVars, timerVars, setupVars>>
       \/ part = "timers" /\ TimersNext /\ UNCHANGED <<vars, logVars, dictVars, setupVars>>
       \/ part = "setup" /\ SetupNext /\ UNCHANGED <<vars, logVars, dictVars, timerVars>>

MCSpec == MCInit /\ [][MCNext]_<<vars, logVars, dictVars, timerVars, setupVars, part>>

\* Nothing tells the timers apart.
MCSymmetry == Permutations(Timers)
=============================================================================
