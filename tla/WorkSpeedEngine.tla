--------------------------- MODULE WorkSpeedEngine ---------------------------
(***************************************************************************)
(* How long a team of machines works on a field                            *)
(* (web/app/shared/lib/engine/workSpeedEngine.ts).                         *)
(*                                                                         *)
(* A capacity is in tenths of ha/h, an efficiency a number of 1/One; None  *)
(* stands for the NaN of an empty field.                                   *)
(***************************************************************************)
EXTENDS Quantities

SpeedMachineInput == [width : Nat, speed : Nat]

MinEfficiency == One \div 2
MaxEfficiency == One

Capacity(m) == IF m.width <= 0 \/ m.speed <= 0 THEN 0 ELSE m.width * m.speed

SlipGarbledIsFull(efficiency) ==
  IF efficiency = None THEN MaxEfficiency
  ELSE IF efficiency > MaxEfficiency THEN MaxEfficiency ELSE efficiency
ClampEfficiency(efficiency) ==
  IF efficiency = None THEN MinEfficiency
  ELSE Clamp(efficiency, MinEfficiency, MaxEfficiency)

\* hectares at a capacity: hours, or None where nothing can be estimated.
SlipKeepsTheHourOpen(hours) ==
  [hours |-> hours.n \div hours.d,
   minutes |-> (2 * 60 * (hours.n % hours.d) + hours.d) \div (2 * hours.d)]
HoursAndMinutes(hours) ==
  LET total == (2 * 60 * hours.n + hours.d) \div (2 * hours.d)   \* Math.round
  IN [hours |-> total \div 60, minutes |-> total % 60]

WorkHours(hectares, effective) ==
  IF effective > 0 /\ hectares > 0 THEN Ratio(hectares * 10 * One, effective)
                                   ELSE None

\* The machines of a team work side by side.
SlipSlowestDecides(team, efficiency) ==
  IF DOMAIN team = {} THEN 0
  ELSE Cardinality(DOMAIN team) * efficiency
         * Min({Capacity(team[m]) : m \in DOMAIN team})
TeamCapacity(team, efficiency) ==
  SumOver(DOMAIN team, LAMBDA m : Capacity(team[m]) * efficiency)

IsWorkSpeedResult(r) ==
  LET IsTime(t) == t # None => (t.n > 0 /\ t.d > 0)
  IN /\ {r.hectares, r.efficiency, r.capacity, r.effective} \subseteq Nat
     /\ IsTime(r.workHours)
     /\ {r.hours, r.minutes} \subseteq IF r.workHours = None THEN {None} ELSE Nat
     /\ \A m \in DOMAIN r.machines :
          /\ IsTime(r.machines[m].soloHours)
          /\ AtMost(Zero, r.machines[m].share)
          /\ AtMost(r.machines[m].share, Ratio(1, 1))

WorkSpeedProjection(team, area, chosen) ==
  LET hectares   == IF area # None /\ area > 0 THEN area ELSE 0
      efficiency == ClampEfficiency(chosen)
      Effective(m) == Capacity(team[m]) * efficiency
      effective == TeamCapacity(team, efficiency)
      hours == WorkHours(hectares, effective)
      clock == IF hours = None THEN [hours |-> None, minutes |-> None]
                                   ELSE HoursAndMinutes(hours)
  IN [hectares |-> hectares, efficiency |-> efficiency,
      capacity |-> TeamCapacity(team, 1),
      effective |-> effective, workHours |-> hours, hours |-> clock.hours,
      minutes |-> clock.minutes,
      machines |-> [m \in DOMAIN team |->
        [capacity |-> Capacity(team[m]), effective |-> Effective(m),
         soloHours |-> WorkHours(hectares, Effective(m)),
         share |-> IF effective > 0 THEN Ratio(Effective(m), effective)
                                    ELSE Zero]]]
=============================================================================
