--------------------------- MODULE MCPo33Topology ---------------------------
EXTENDS Po33Topology

Packet(tag, payload) == [tag |-> tag, payload |-> payload]

(* Headers of three bytes: a range of two and a source.  Data comes as a   *)
(* header, part of one, samples, or a header and samples together.         *)
MCPackets ==
  { Packet("begin", <<>>), Packet("end", <<>>), Packet("other", <<1>>),
    Packet("select", <<0>>), Packet("select", <<1>>), Packet("select", <<>>),
    Packet("data", <<0, 0>>),
    Packet("data", <<0, 0, 0>>), Packet("data", <<0, 0, 1>>),
    Packet("data", <<0, 4, 0, 5, 6>>), Packet("data", <<0, 4, 1, 5, 6, 7, 8>>) }

=============================================================================
