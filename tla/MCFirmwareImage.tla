---------------------------- MODULE MCFirmwareImage ----------------------------
(* A flash of 64 bytes in sectors of 8 and phrases of 4, options at 300 and *)
(* at 400, bootloaders made of pieces around these borders.                 *)
EXTENDS FirmwareImage

MCCode == 0..63
MCCodeOptions == 300..311
MCDataOptions == 400..411
MCInput == {<<0, 0, 5>>, <<0, 0, 6, 7>>, <<1, 0, 8>>}

Piece(addr, n) == [addr |-> addr, data |-> [j \in 1..n |-> 100 + ((addr + j) % 50)]]
First == Piece(0, 5)
Pieces == {Piece(5, 3), Piece(8, 4), Piece(12, 1), Piece(15, 4), Piece(56, 1), Piece(146, 2),
           Piece(298, 4), Piece(303, 2), Piece(409, 4)}
MCBootloader == {<<First>> \o FoldSet(LAMBDA p, s : Append(s, p), <<>>, S) : S \in SUBSET Pieces}
================================================================================
