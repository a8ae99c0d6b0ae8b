-------------------------- MODULE MCNotifications --------------------------
(* Small instances of Notifications: one row and two devices.               *)
EXTENDS Notifications

Setting(size, pool, kinds) == [batch |-> size, workers |-> pool, troubles |-> kinds]

MCSettings ==
    {Setting(1, 2, {"time", "devices"}),
     Setting(1, 1, {"dispatch", "stops", "throws", "losses"}),
     Setting(2, 2, {"stops"}),
     Setting(2, 1, {"losses", "days"}),
     Setting(2, 1, {"dispatch", "throws", "losses", "devices", "time"})}
=============================================================================
