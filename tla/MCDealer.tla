------------------------------ MODULE MCDealer ------------------------------
(* A small dealer: two message receivers, or one of them a request receiver. *)
EXTENDS Dealer
MCRequestReceivers == {2}
=============================================================================
