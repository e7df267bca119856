---------------------------- MODULE MCDatapath ----------------------------
(***************************************************************************)
(* Values for model-checking Datapath.  A good application keeps to all    *)
(* the rules of usage; dp_stale and dp_twice show what two of them are     *)
(* for.                                                                    *)
(***************************************************************************)
EXTENDS Datapath

MCTxSizes   == {3, 8}       \* one that rounds down to nothing
MCRxSizes   == {-1, 8}      \* SIZE_MAX, and one that is granted
MCBufCounts == {1, 2}

MCRules          == {"pairs", "drained", "counted", "break", "tx_first", "tx_once", "fresh"}
MCNotDrained     == MCRules \ {"drained"}
MCNotPairs       == MCRules \ {"pairs", "fresh"}   \* the second implies the first for enabling
MCReportedFaults == {"init", "count", "create", "refill"}
MCAllFaults      == MCReportedFaults \cup {"write", "push"}

=============================================================================
