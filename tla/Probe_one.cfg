SPECIFICATION Spec
CONSTANTS
    Daemons = {d1}
    Intervals = {2, 3}
    Lat = 1
    MaxLate = 3
    MaxOut = 3
PROPERTIES LossIsReal   
