----------------------------- MODULE CaptureFiles -----------------------------
(***************************************************************************)
(* Conversions and exports of one directory, one after the other, each of  *)
(* which may be killed, with the F3 extractor at work meanwhile.           *)
(***************************************************************************)
EXTENDS Conversion, PcapExport

CONSTANTS
    SomeJobs,       \* the conversions that may be started
    MaxRuns         \* bound of the model: programs started

ASSUME FilesAssumption == SomeJobs \subseteq Jobs /\ MaxRuns \in Nat

VARIABLE runs       \* programs started

filesVars == <<dir, pc, conversion, export, runs>>

FilesInit == DirInit /\ ConversionInit /\ ExportInit /\ runs = 0

Started == runs < MaxRuns /\ runs' = runs + 1

FilesNext ==
    \/ Started /\ UNCHANGED export /\ \E j \in SomeJobs : Convert(j)
    \/ Started /\ UNCHANGED conversion /\ \E o \in Outputs : Export(o)
    \/ (ConversionStep \/ Interrupt \/ ConversionKilled) /\ UNCHANGED <<export, runs>>
    \/ (ExportStep \/ ExportKilled) /\ UNCHANGED <<conversion, runs>>
    \/ (\E c \in Captures : f3[c] # "full" /\ ExtractF3(c)) /\ UNCHANGED <<export, runs>>
    \/ pc = "off" /\ runs = MaxRuns /\ UNCHANGED filesVars

FilesSpec == FilesInit /\ [][FilesNext]_filesVars

=============================================================================
