----------------------------- MODULE MCExchange -----------------------------
(* Small instances of Exchange: one wallet plugged in at first. *)
EXTENDS Exchange

CONSTANT w1

OneWallet == <<w1>>
=============================================================================
