---- MODULE MCTaskPrint ----
EXTENDS TaskPrint

CONSTANTS s1, s2, n1, n2

MCServices == {s1, s2}
MCSlots    == {0, 1, 2}
MCTimes    == {1, 2}
MCNodes    == {n1, n2}
MCBadNodes == {n2}
====
