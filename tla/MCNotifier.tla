----------------------------- MODULE MCNotifier -----------------------------
EXTENDS Notifier

CONSTANTS n1, x1, a1, a2

TheNotices == {n1}
TheOthers  == {x1}
TheServers == {a1, a2}
=============================================================================
