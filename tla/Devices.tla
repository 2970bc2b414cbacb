-------------------------------- MODULE Devices --------------------------------
(*********************************************************************************)
(* DeviceStore of devices.js: the paired phones, in memory and in devices.json.  *)
(*                                                                               *)
(* A secret is named by the pairing request whose approval made it; LostSecret   *)
(* is a secret no phone was ever given.  Names, pairedAt and lastSeen are left   *)
(* out: nothing the server decides depends on them.                              *)
(*********************************************************************************)
EXTENDS Laptop

CONSTANTS MaxDevices,    \* limits.maxDevices
          DiskMayFail    \* whether writing devices.json may throw

ASSUME DevicesAssumption == /\ MaxDevices \in Nat
                            /\ DiskMayFail \in BOOLEAN

VARIABLES devices,       \* the Map of the process: paired phone -> its secret
          devicesFile    \* what devices.json holds

deviceVars == <<devices, devicesFile>>

LostSecret == 0

Has(d) == d \in DOMAIN devices

CanAdd(d) == Has(d) \/ Cardinality(DOMAIN devices) < MaxDevices

\* _save: writes the whole Map through a temporary file, or throws and leaves the
\* old file.  Either way the Map has already changed.
Save(saved) ==
    /\ saved \in (IF DiskMayFail THEN BOOLEAN ELSE {TRUE})
    /\ devicesFile' = IF saved THEN devices' ELSE devicesFile

\* Mutant: a phone already paired keeps its secret.
Add_KeepsSecret(d, secret, saved) ==
    /\ CanAdd(d)
    /\ devices' = IF Has(d) THEN devices ELSE With(devices, d, secret)
    /\ Save(saved)

\* add: a new phone, or a new secret for a phone already paired.
Add(d, secret, saved) ==
    /\ CanAdd(d)
    /\ devices' = With(devices, d, secret)
    /\ Save(saved)

\* Mutant: the removal is not written to the file.
Remove_Unsaved(d, saved) ==
    IF Has(d) THEN devices' = Without(devices, {d}) /\ saved = TRUE /\ UNCHANGED devicesFile
              ELSE saved = TRUE /\ UNCHANGED deviceVars

\* remove: nothing is written when the phone is not there.
RemoveDevice(d, saved) ==
    IF Has(d) THEN devices' = Without(devices, {d}) /\ Save(saved)
              ELSE saved = TRUE /\ UNCHANGED deviceVars

\* The constructor, in a new process.
LoadDevices == devices' = devicesFile /\ UNCHANGED devicesFile
=================================================================================
