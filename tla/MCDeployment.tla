---------------------------- MODULE MCDeployment ----------------------------
(* Two coins; SYMBOLS is clean, untidy, short or empty.                     *)
EXTENDS Deployment

CONSTANTS BTC, ETH

Written(coin, spelled, padded) ==
  [symbol |-> [coin |-> coin, spelled |-> spelled], padded |-> padded]

MCCoins == {BTC, ETH}
MCFallback == {BTC}
MCValues ==
  {{Written(BTC, "upper", FALSE), Written(ETH, "upper", FALSE)},
   {Written(BTC, "lower", TRUE), Written(BTC, "upper", FALSE)},
   {Written(ETH, "lower", TRUE), Blank},
   {Blank}}
=============================================================================
