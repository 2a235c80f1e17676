CONSTANTS
  a = a  b = b  c = c  e = e  up = up  far = far  d = d
  list = list  one = one  none = none  t1 = t1  t2 = t2
  Local <- MCLocal
  Parents <- MCParents
  Remote <- MCRemote
  IdOf <- MCIdOf
  Linkers <- MCLinkers
  Keys <- MCKeys
  Lists <- MCLists
  NoKey = none
  Links <- MCLinks
  Things <- MCThings
  Inexact <- MCInexact
  MaxForgotten = 1
SPECIFICATION Spec
INVARIANTS TypeOK NothingLost OneSurvivor  
CHECK_DEADLOCK FALSE
