-------------------------------- MODULE MCIntake --------------------------------
(* A form with two files, one of them infected, sent up to three times.          *)
EXTENDS Intake

MCReports == 1..3
MCFiles == {1, 2}
MCInfected == {2}
================================================================================
