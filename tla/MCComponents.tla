----------------------------- MODULE MCComponents -----------------------------
(***************************************************************************)
(* The components of a run that are modelled one by one share no variable, *)
(* so that one run of TLC checks them all: part is the component at work,  *)
(* and the others stay in one of their initial states.                     *)
(***************************************************************************)
EXTENDS HumanCapture, DoneRecovery, ActionBatch, ReplayTabs,
        ElementFinder, MessageMemory, ModelCall, RunStream, CdpTunnel,
        TaskPurge

VARIABLE part
partsVars == <<part, captureVars, recoveryVars, batchVars, replayVars,
               finderVars, memoryVars, modelVars, streamVars, tunnelVars, purgeVars>>

Part == {"capture", "recovery", "batch", "replay", "finder", "memory", "model", "stream",
         "tunnel", "purge"}

PartsInit ==
    /\ part \in Part
    /\ CaptureInit /\ lastUrl = CHOOSE u \in Urls : TRUE   \* the addresses are alike
    /\ RecoveryInit
    /\ BatchInit /\ (part # "batch" => batch = [acts |-> <<[kind |-> "go", on |-> "none"]>>, retry |-> FALSE])
    /\ ReplayInit
    /\ FinderInit /\ (part # "finder" => Len(elements) = 1 /\ finding.use = "batch"
                        /\ elements[1].testid = "" /\ elements[1].name = "" /\ recorded.kind = "nth")
    /\ MemoryInit
    /\ ModelInit /\ (part # "model" => request.agent = "navigator")
    /\ StreamInit
    /\ TunnelInit
    /\ PurgeInit

StayC == UNCHANGED captureVars
StayD == UNCHANGED recoveryVars
StayB == UNCHANGED batchVars
StayR == UNCHANGED replayVars
StayF == UNCHANGED finderVars
StayM == UNCHANGED memoryVars
StayL == UNCHANGED modelVars
StayS == UNCHANGED streamVars
StayT == UNCHANGED tunnelVars
StayP == UNCHANGED purgeVars

PartsNext ==
    /\ UNCHANGED part
    /\ \/ part = "capture" /\ CaptureNext
          /\ StayD /\ StayB /\ StayR /\ StayF /\ StayM /\ StayL /\ StayS /\ StayT /\ StayP
       \/ part = "recovery" /\ RecoveryNext
          /\ StayC /\ StayB /\ StayR /\ StayF /\ StayM /\ StayL /\ StayS /\ StayT /\ StayP
       \/ part = "batch" /\ BatchNext
          /\ StayC /\ StayD /\ StayR /\ StayF /\ StayM /\ StayL /\ StayS /\ StayT /\ StayP
       \/ part = "replay" /\ ReplayNext
          /\ StayC /\ StayD /\ StayB /\ StayF /\ StayM /\ StayL /\ StayS /\ StayT /\ StayP
       \/ part = "finder" /\ FinderNext
          /\ StayC /\ StayD /\ StayB /\ StayR /\ StayM /\ StayL /\ StayS /\ StayT /\ StayP
       \/ part = "memory" /\ MemoryNext
          /\ StayC /\ StayD /\ StayB /\ StayR /\ StayF /\ StayL /\ StayS /\ StayT /\ StayP
       \/ part = "model" /\ ModelNext
          /\ StayC /\ StayD /\ StayB /\ StayR /\ StayF /\ StayM /\ StayS /\ StayT /\ StayP
       \/ part = "stream" /\ StreamNext
          /\ StayC /\ StayD /\ StayB /\ StayR /\ StayF /\ StayM /\ StayL /\ StayT /\ StayP
       \/ part = "tunnel" /\ TunnelNext
          /\ StayC /\ StayD /\ StayB /\ StayR /\ StayF /\ StayM /\ StayL /\ StayS /\ StayP
       \/ part = "purge" /\ PurgeNext
          /\ StayC /\ StayD /\ StayB /\ StayR /\ StayF /\ StayM /\ StayL /\ StayS /\ StayT

PartsSpec == PartsInit /\ [][PartsNext]_partsVars

\* The variables of the component at work are of their types.
PartsTypeOK ==
    CASE part = "capture" -> CaptureTypeOK
      [] part = "recovery" -> RecoveryTypeOK [] part = "batch" -> BatchTypeOK
      [] part = "replay" -> ReplayTypeOK     [] part = "finder" -> FinderTypeOK
      [] part = "memory" -> MemoryTypeOK     [] part = "model" -> ModelTypeOK
      [] part = "stream" -> StreamTypeOK     [] part = "tunnel" -> TunnelTypeOK
      [] part = "purge" -> PurgeTypeOK
==============================================================================
