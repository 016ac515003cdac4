----------------------------- MODULE MCQemuRuns -----------------------------
(***************************************************************************)
(* Two runs, two seconds and two ports: the runs may share a second, or a  *)
(* port once the QEMU that held it is gone.                                *)
(***************************************************************************)
EXTENDS QemuRuns
=============================================================================
