\* Any interleaving of the sensor, the interrupt handler and the GUI thread.
SPECIFICATION CameraFairSpec
INVARIANT NoTearing
PROPERTIES HandsOutNewest FrameArrives
