----------------------------- MODULE MCReloadLoop -----------------------------
(* build.gradle makes a Gradle workspace, pom.xml a Maven one; Gradle is     *)
(* asked first.                                                              *)
EXTENDS ReloadLoop, TLC

CONSTANTS gradle, pom, Gradle, Maven

MCNameOf == [f \in File |-> IF f = gradle THEN "build.gradle" ELSE "pom.xml"]
MCRegistry == <<Gradle, Maven>>
MCMarkers == Gradle :> {gradle} @@ Maven :> {pom}
MCWatched == Gradle :> {"build.gradle"} @@ Maven :> {"pom.xml"}
===============================================================================
