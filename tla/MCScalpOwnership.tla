--------------------------- MODULE MCScalpOwnership ---------------------------
(* Small instances of ScalpOwnership: a behaviour shows one of the scenes    *)
(* that a configuration gives to Scenes.                                     *)
EXTENDS ScalpOwnership

Quiet == [cycles |-> 1, start |-> 1, buys |-> 0, sells |-> 0, fees |-> 0, faults |-> 0,
          troubles |-> {}]

\* A cycle beside an owner who buys and sells, at any time, one beside an owner
\* who buys twice and pays a base fee, and two cycles after each other with one
\* crash or failed request.
PlainScenes ==
    {[Quiet EXCEPT !.buys = 1, !.sells = 1, !.troubles = {"unseen_trade"}],
     [Quiet EXCEPT !.buys = 2, !.fees = 1, !.troubles = {"unseen_trade"}],
     [Quiet EXCEPT !.cycles = 2, !.start = 0, !.faults = 1]}

\* A cycle with a fault, an answer that comes late and rechecks that fail:
\* beside an owner who buys, and with syncs that stop half-way.
TroubledScenes ==
    {[Quiet EXCEPT !.buys = 1, !.faults = 1,
                   !.troubles = {"late_answer", "failed_recheck", "unseen_trade"}],
     [Quiet EXCEPT !.faults = 1,
                   !.troubles = {"late_answer", "failed_recheck", "long_window"}]}

\* A base fee of the owner is not posted yet when the first cycle begins.
OwedFeeScene == {[Quiet EXCEPT !.buys = 2, !.sells = 1, !.fees = 1, !.troubles = {"owed_fee"}]}
=============================================================================
