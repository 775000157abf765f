---------------------------- MODULE MCBotStart ----------------------------
(* Instances of BotStart for TLC.                                          *)
EXTENDS BotStart, SequencesExt

\* Up to three servers; names may repeat, and a server may be disabled.
Entries == [name : {"a", "a__b"}, enabled : BOOLEAN]
SomeConfigs == SeqOf(Entries, 2) \cup
    {<<[name |-> "a", enabled |-> TRUE], [name |-> "c", enabled |-> TRUE],
       [name |-> "a__b", enabled |-> TRUE]>>}

\* Server a__b with tool t makes the name that server a with tool b__t makes.
Prefixed ==
    [p \in {"a", "a__b", "c"} \X {"t", "b__t"} |-> "mcp__" \o p[1] \o "__" \o p[2]]
===========================================================================
