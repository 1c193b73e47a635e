SPECIFICATION LibSpec
CONSTANTS
    ByteRadix = 4
    ESC = 2
    RingSize = 16
    FifoCap = 4
    Bodies <- SmallBodies
    MaxFrames = 3
    MaxDamaged = 1
    DigitRadix = 8
    RecvSize = 14
    ConnectAsks <- Asks
    Topics <- OneTopic
    Messages <- Msgs
    MaxPackets = 3
    MaxAsked = 1
    SmsSlots = 2
    Stored <- SomeStored
    Numbers <- SomeNumbers
    Texts = {"a"}
    ConParams <- SomeCons
    Pdus <- SomePdus
    MaxDigits = 2
    MaxCalls = 2
    d1 = d1
    d2 = d2
    Devices = {d1, d2}
    Nobody = nobody
    BtSize = 2
    Names <- SomeNames
    MaxBtBegun = 3
SYMMETRY DeviceSymmetry
INVARIANTS LibTypeOK FramesExact Resynchronises MqttExchange MqttHandedOn MqttPacketsWhole SmsCallsAreTrue BtTrue
CHECK_DEADLOCK FALSE
