\* The 9P instance of MC_NineP.cfg, checking only that an FSFile handed to
\* fs_open, or passed to a read's backend call, stays allocated while the
\* backend works on it.
CONSTANTS
  f1 = f1  f2 = f2  f3 = f3
  fidA = fidA  fidB = fidB
  Files <- MC_Files
  Fids <- MC_Fids
  Ops <- MC_Ops
  MaxReqs = 4
  Num = 4
  IdxMod = 4
  MaxIO = 2
SPECIFICATION Spec
SYMMETRY MC_Symmetry
INVARIANT FilesInUseLive
CHECK_DEADLOCK FALSE
