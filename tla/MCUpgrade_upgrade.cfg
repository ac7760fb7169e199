\* A drive that is written six times over in five collections, the service
\* and one command; any of the earlier releases, and any upgrade between them.
SPECIFICATION Spec
CONSTANTS
  service = service
  command = command
  Factor = 64
  Start = 2
  MaxUnits = 12
  Growth = {0, 2, 8}
  MaxSamples = 5
  Processes = {service, command}
  Worn = 3
  Unknown = Unknown
SYMMETRY Either
INVARIANTS
  TypeOK RescaledAtMostOnce RepairIsComplete NoMeaninglessWear
