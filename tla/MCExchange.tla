----------------------------- MODULE MCExchange -----------------------------
(***************************************************************************)
(* Two payloads, at most two calls, nonces with and without leading zeros  *)
(* and high bits.  An attempt lasts one unit at most, the tolerance is two *)
(* as in the code, where it is twice the timeout.                          *)
(***************************************************************************)
EXTENDS Exchange

CONSTANTS payload1, payload2

MCDraws == {<<0, 0>>, <<0, 2>>, <<1, 3>>}

MCDrifts == {-1, 1, 3}

\* At most two calls, and two tokens of one stamp.
MCExchangeNext ==
    /\ ExchangeNext
    /\ Cardinality(spent') <= 2

MCExchangeSpec ==
    ExchangeInit /\ [][MCExchangeNext]_exchangeVars /\ WF_exchangeVars(Proceed)
=============================================================================
