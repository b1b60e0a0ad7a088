---- MODULE MCIpcFeed ----
EXTENDS IpcFeed

\* An earlier run may have left nothing, some messages, or messages and the marker.
EarlierRun == {<<>>, <<Stale>>, <<Stale, Stale>>, <<Stale, EndOfData>>}
====
