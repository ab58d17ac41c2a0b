\* The 9P fid table under attach, walk, clunk, lopen and the other requests,
\* drained by the worker and the open callback's queue_notify.  Four requests
\* are enough for attach, walk, a rebinding and a clunk racing an open; FSFiles
\* and fids are interchangeable model values, so symmetry is sound.
CONSTANTS
  f1 = f1  f2 = f2  f3 = f3
  fidA = fidA  fidB = fidB
  Files <- MC_Files
  Fids <- MC_Fids
  Ops <- MC_Ops
  MaxReqs = 4
  Num = 4
  IdxMod = 4
  MaxIO = 2
SPECIFICATION Spec
SYMMETRY MC_Symmetry
INVARIANT TypeOK FidTableSound
\* All requests handled and no open outstanding is a final state.
CHECK_DEADLOCK FALSE
