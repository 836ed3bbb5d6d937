--------------------------- MODULE MCFrameArrival ---------------------------
(* Bounded instances of FrameArrival.  Sizes are chosen on both sides of    *)
(* every threshold: empty parts, the 16 MB limit, the 16-bit header length. *)
EXTENDS FrameArrival

Msg(p, h, b) == [proto |-> p, header |-> [val |-> "h", size |-> h],
                 body |-> [val |-> "b", size |-> b]]

Small == {Msg(p, h, b) : p \in Protocols, h \in {0, 9, 24, 65535, 65536, 65537}, b \in {0, 1, 40}}

AtLimit == {Msg("XRpc", 24, kMaxFrameSize - 40), Msg("XRpc", 24, kMaxFrameSize - 39),
            Msg("Legacy", 24, kMaxFrameSize - 28), Msg("Legacy", 24, kMaxFrameSize - 27)}

MCMessages == Small \cup AtLimit

Near(x) == (x - 3) .. (x + 20)
MCOffsets == (0 .. 90) \cup Near(65551) \cup Near(65591) \cup Near(kMaxFrameSize)
               \cup Near(65536) \cup Near(65582)
=============================================================================
