------------------------- MODULE MCConversationLife -------------------------
(* TLC instances of ConversationLife: who turns up on which day. *)
EXTENDS ConversationLife

\* Two sends and a rewind; a send with a compaction and a rewind; a send with
\* a sub-agent and a delete; a send, a retry that wedges and a delete; a send,
\* a delete and the sweep, or an admin's purge.
AllDays == {{"s1", "s2", "w"}, {"s1", "c", "w"}, {"s1", "d"}, {"s2", "t", "d"},
            {"s2", "d", "e"}, {"s2", "d", "p"}}

\* A compaction looks at the slot before a send claims it.
CompactionDay == {{"s1", "c"}}
=============================================================================
