--------------------------- MODULE MCPo33PoolEdit ---------------------------
EXTENDS Po33PoolEdit

Packet(tag, payload) == [tag |-> tag, payload |-> payload]
Select(s) == Packet("select", <<s>>)
Data(d)   == Packet("data", d)

(* The sound groups, with headers of three bytes and blocks of four: a     *)
(* pool of one block, one whose header is split over packets, one that is  *)
(* not a whole block, one with an extension in it, an alias, a selector    *)
(* without data.                                                           *)
Pool(s, r)     == <<Select(s), Data(<<0, 4, r>>), Data(<<5, 6, 7>>), Data(<<8>>)>>
Split(s, r)    == <<Select(s), Data(<<0>>), Data(<<4, r, 5>>), Data(<<6, 7, 8>>)>>
Unround(s, r)  == <<Select(s), Data(<<0, 2, r, 5>>), Data(<<6>>)>>
Extended(s, r) == <<Select(s), Data(<<0, 4, r, 5, 6>>), Packet("other", <<1>>), Data(<<7, 8>>)>>
Alias(s, r)    == <<Select(s), Data(<<1, 2, r>>)>>
Bare(s)        == <<Select(s)>>

Pools(s)  == UNION { {Pool(s, r), Split(s, r), Unround(s, r), Extended(s, r)} : r \in {0, 1} }
Groups(s) == Pools(s) \cup {Alias(s, 0), Alias(s, 1), Bare(s)}

Whole(run) == <<Packet("begin", <<>>), Packet("other", <<9>>)>> \o run \o <<Packet("end", <<>>)>>

MCFrames ==
  { Whole(a) : a \in Groups(0) }
    \cup { Whole(a \o b) : a \in Groups(0), b \in Groups(0) \cup Groups(1) }
    \cup { Whole(a \o b \o Alias(2, 0)) : a \in Pools(0), b \in Groups(1) }

MCSubstitutes ==
  { Whole(Pool(0, 0) \o Alias(1, 0)), Whole(Alias(1, 0) \o Pool(0, 0)),
    Whole(Alias(1, 0) \o Split(0, 0)), Whole(Pool(0, 1) \o Pool(1, 0)) }

MCSampleRuns == { <<>>, <<11, 12, 13>>, <<11, 12, 13, 14>>,
                  <<11, 12, 13, 14, 15, 16, 17, 18, 19>> }

=============================================================================
