SPECIFICATION Spec
CONSTANTS
  Programs <- SparkTwice
  MaxWorkers = 2
PROPERTY ForceReduces
