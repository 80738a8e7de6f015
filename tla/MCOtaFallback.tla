--------------------------- MODULE MCOtaFallback ----------------------------
(* Ota alone for TLC, with the artifacts of MCOta.                          *)
EXTENDS Ota, TLC

MCArtifacts == {"old", "run", "new", "forged"}
MCVer == [a \in MCArtifacts |->
            IF a = "old" THEN 1 ELSE IF a = "run" THEN 2 ELSE 3]
MCSigned == {"old", "run", "new"}
=============================================================================
