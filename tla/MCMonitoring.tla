------------------------------ MODULE MCMonitoring ------------------------------
(***************************************************************************)
(* The monitoring parts for the model checker: each behaviour is one of a  *)
(* single part, chosen at the start; the parts share no state.  A part that*)
(* was not chosen stays in its initial state, where no fair action of it is*)
(* enabled.                                                                *)
(***************************************************************************)
EXTENDS HeatEvaluator, LockFreeMonitor, AccessMonitor, AccessPatternAnalyzer

VARIABLE subject

monitoringVars == <<heatVars, ringVars, monitorVars, analyzerVars, subject>>

ReadsOfOneBlock == {<<0, "READ">>}

MonitoringInit ==
  /\ subject \in {"heat", "ring", "monitor", "analyzer"}
  /\ HeatInit /\ MonitorInit /\ AnalyzerInit
  /\ RingInit /\ (subject # "ring" => mode_ = "FULL")

MonitoringNext ==
  /\ subject' = subject
  /\ \/ /\ subject = "heat" /\ HeatNext
        /\ UNCHANGED <<ringVars, monitorVars, analyzerVars>>
     \/ /\ subject = "ring" /\ RingNext
        /\ UNCHANGED <<heatVars, monitorVars, analyzerVars>>
     \/ /\ subject = "monitor" /\ MonitorNext
        /\ UNCHANGED <<heatVars, ringVars, analyzerVars>>
     \/ /\ subject = "analyzer" /\ AnalyzerNext
        /\ UNCHANGED <<heatVars, ringVars, monitorVars>>

MonitoringSpec ==
  /\ MonitoringInit /\ [][MonitoringNext]_monitoringVars
  /\ RingFairness /\ MonitorFairness

\* The variables of every part keep their types.
MonitoringTypeOK == HeatTypeOK /\ RingTypeOK /\ MonitorTypeOK /\ AnalyzerTypeOK

=============================================================================
