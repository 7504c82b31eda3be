------------------------------ MODULE MCTxRaw ------------------------------
(* An instance of TxRaw with blocks of one and of two DMA buffers.         *)
EXTENDS TxRaw

Blocks == <<1, 2, 1, 1>>
=============================================================================
