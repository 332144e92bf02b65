----------------------------- MODULE MCPipeline ------------------------------
(* Pipeline on paths over a small library of bundles.                      *)
EXTENDS Pipeline, TLC

Plain == [latency |-> 1, spans |-> {}, holds |-> {}, checks |-> {},
          waits |-> {}, updates |-> {}, service |-> NoService, waitUntil |-> 0]

Reserve(r, offset, duration) ==
  [resource |-> r, offset |-> offset, duration |-> duration]
Credit(c, units, late) == [counter |-> c, units |-> units, late |-> late]

Matmul == [Plain EXCEPT !.latency = 3, !.spans = {Reserve("x", 1, 2)}]
Pop == [Plain EXCEPT !.spans = {Reserve("x", 2, 1), Reserve("y", 0, 2)}]
Both == [Plain EXCEPT !.spans = {Reserve("x", 0, 1), Reserve("y", 0, 1)}]
Load == [Plain EXCEPT !.latency = 2, !.service = "hbm",
                      !.updates = {Credit("f", 1, TRUE)}]
Store == [Load EXCEPT !.latency = 1, !.updates = {Credit("f", 2, TRUE)}]
Wait(n) == [Plain EXCEPT !.waits = {[counter |-> "f", units |-> n]}]
Add(n) == [Plain EXCEPT !.updates = {Credit("f", n, FALSE)}]
Hold == [Plain EXCEPT !.holds = {[resource |-> "x", cycles |-> 3]}]
Check == [Plain EXCEPT !.checks = {"x"}]
Late == [Plain EXCEPT !.waitUntil = 4]

Issued(ops) == [ops |-> ops, cycles |-> 1]

MCBundles ==
  {Issued(ops) : ops \in
     {<<Matmul>>, <<Pop>>, <<Both>>, <<Matmul, Pop>>, <<Load>>, <<Load, Store>>,
      <<Wait(1)>>, <<Wait(3)>>, <<Add(1), Wait(1)>>, <<Add(-1)>>, <<Hold>>,
      <<Check, Matmul>>, <<Hold, Check>>, <<Late, Load>>}}

MCInitialReady == <<0, 1>> :> 2
MCInitialCredits == "f" :> 0
===============================================================================
