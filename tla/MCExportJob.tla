---------------------------- MODULE MCExportJob ----------------------------
(***************************************************************************)
(* Small instances of ExportJob for TLC.                                   *)
(***************************************************************************)
EXTENDS ExportJob, TLC

CONSTANTS h1, h2

\* Two concurrent handlers: a late one and one that takes over.
MCHandlers == {h1, h2}

\* One handler, as the worker is deployed.
MCOneHandler == {h1}

\* The slots are alike; used where only safety is checked.
MCSymmetry == Permutations(MCHandlers)
=============================================================================
